---- MODULE Spec2Model ----
(***************************************************************************)
(* Tower: per-IP rate limiting with the escalation ladder                  *)
(* ALLOW -> FLAG -> THROTTLE -> BAN, a ban mirror (bannedCache) in front   *)
(* of the durable banned_ips table, lazy ban expiry and a cleanup task.    *)
(*                                                                         *)
(* Time is counted in ticks of half a second (TicksPerSec ticks make one   *)
(* second), so that the second granularity of the RFC 3339 strings the     *)
(* table stores is visible.                                                *)
(***************************************************************************)
EXTENDS Integers, Sequences, FiniteSets, TLC

\* ------------------------------------------------------------------ bounds
MaxTime == 4
MaxRequestLimit == 2
MaxThrottleLimit == 2
MaxCalls == 4
MaxLag == 1
NumThreads == 2
MaxNotify == 1
MaxDrift == 2

\* ------------------------------------------------------------ vocabulary
TicksPerSec == 2

IPs == {"10.0.0.1", "10.0.0.2"}
Nil == -1

ActionAllow == "ALLOW"
ActionFlag == "FLAG"
ActionThrottle == "THROTTLE"
ActionBan == "BAN"

FlagReason == "suspicious activity detected"
ThrottleReason == "rate limit exceeded"
AutoBanReason == "auto-ban: repeated throttling"
ManualReasons == {"abuse"}

\* The subscribers: the last one answers no request.
URLs == {"http://a", "http://b", "http://down"}
Responsive == {"http://a", "http://b"}

\* Durations handed to RecordManualBan: 0 is permanent.
ManualDurations == {0, 2}

\* The configurations the engine is constructed with (durations in ticks).
Configs ==
  { [RequestWindow |-> 2, RequestLimit |-> l, ThrottleWindow |-> 3,
     ThrottleLimit |-> t, BanDuration |-> 3, InMemoryLogLimit |-> 2,
     CleanupInterval |-> 1] :
       l \in 1..MaxRequestLimit, t \in 1..MaxThrottleLimit }

Threads == 1..NumThreads

VARIABLES
  cfg,            \* Limiter.cfg
  now,            \* the wall clock, time.Now()
  reqByIP,        \* Limiter.reqByIP: map ip -> timestamps
  flaggedIPs,     \* Limiter.flaggedIPs: map ip -> first flagging instant
  throttleByIP,   \* Limiter.throttleByIP: map ip -> timestamps
  bannedCache,    \* Limiter.bannedCache: map ip -> Ban (the mirror)
  recentRequests, \* Limiter.recentRequests: the ring
  store,          \* table banned_ips: map ip -> Ban, instants as stored
  faulty,         \* whether statements on the table may fail
  cleanup,        \* the cleanup goroutine: StartCleanup was called, position, deleted
                  \* count, compaction owed by the tick under way, tick waiting
                  \* in ticker.C
  ctx,            \* the context StartCleanup was given: "live" or "done"
  engine,         \* "new" | "hydrated" | "serving": life of this Limiter
  restarts,       \* 0 for the first Limiter on the table, 1 for the one after a restart
  ret,            \* what the last completed call returned (failed: its statement on the table
                  \* failed; swallowed: it failed and the call dropped the error)
  hist,           \* per ip, the actions LogRequest returned to this Limiter's callers
  inWin,          \* per ip, whether every LogRequest so far saw all earlier events in window
  issued,         \* per ip, the last ban written successfully, with the duration asked for
  thr,            \* the concurrent callers: position, stamped time, calls left
  perThread,      \* calls each concurrent caller issues
  tally,          \* decisions received by the concurrent callers, per action
  callbacks,      \* Limiter.callbacks: the slice of subscriber URLs (backing array and length)
  listed,         \* the list a caller holds from its last Callbacks() call
  calls,          \* the NotifyCallbacks invocations so far: decision, snapshot, position
  wire,           \* the POSTs under way, one for each goroutine NotifyCallbacks started
  inbox           \* the POSTs the subscribers have received

vars == <<cfg, now, reqByIP, flaggedIPs, throttleByIP, bannedCache, recentRequests,
          store, faulty, cleanup, ctx, engine, restarts, ret, hist, inWin, issued,
          thr, perThread, tally, callbacks, listed, calls, wire, inbox>>

\* ------------------------------------------------------------- Go maps
Get(m, k, zero) == IF k \in DOMAIN m THEN m[k] ELSE zero
Put(m, k, v) == [i \in DOMAIN m \cup {k} |-> IF i = k THEN v ELSE m[i]]
\* Mutant: the key stays.
Delete_Kept(m, k) == m

Delete(m, k) == [i \in DOMAIN m \ {k} |-> m[i]]
EmptyMap == [i \in {} |-> 0]

Min(a, b) == IF a < b THEN a ELSE b

\* ------------------------------------------------------------ Go slices
\* A slice is a view of the first len elements of its backing array arr; cap is
\* the length of arr.  A nil slice has no array.
NilSlice == [arr |-> <<>>, len |-> 0]

Elems(s) == SubSeq(s.arr, 1, s.len)

\* The capacity append gives the new array when the old one is full.
GrowCap(c) == IF c = 0 THEN 1 ELSE 2 * c

\* append(s, v): in place while the array has room, else into a new, larger array.
AppendSlice(s, v) ==
  IF s.len < Len(s.arr)
    THEN [arr |-> [s.arr EXCEPT ![s.len + 1] = v], len |-> s.len + 1]
    ELSE [arr |-> Elems(s) \o <<v>> \o [k \in 1..(GrowCap(Len(s.arr)) - s.len - 1) |-> ""],
          len |-> s.len + 1]

\* append(s[:i], s[i+1:]...) with i counted from 1: the elements behind i move one
\* place down in the same array; the last place keeps its old content.
RemoveAt(s, i) ==
  [arr |-> [k \in 1..Len(s.arr) |-> IF k >= i /\ k < s.len THEN s.arr[k + 1] ELSE s.arr[k]],
   len |-> s.len - 1]

\* out := make([]T, len(s)); copy(out, s): a list of its own.
\* Mutant: the slice itself is handed out, sharing the array.
CopyOut_Alias(elems) == [alias |-> TRUE, elems |-> elems]

CopyOut(elems) == [alias |-> FALSE, elems |-> elems]

\* ------------------------------------------------------- pure functions
\* time.Time.Format(time.RFC3339): the text names whole seconds only, so the
\* stored value is the number of the second the instant lies in.
FormatRFC3339(t) == t \div TicksPerSec

nullableTime(t) == IF t = Nil THEN Nil ELSE FormatRFC3339(t)

\* time.Parse(time.RFC3339, s) of a stored string: the start of the second it names.
ParseRFC3339(s) == s * TicksPerSec

\* prune drops the leading timestamps that lie before time.Now() - window and
\* stops at the first one that does not.
\* Mutant: nothing is ever dropped.
prune_KeepAll(ts, window) == ts

prune(ts, window) ==
  LET cut == now - window
      idx == Cardinality({i \in 1..Len(ts) : \A j \in 1..i : ts[j] < cut})
  IN SubSeq(ts, idx + 1, Len(ts))

\* b.ExpiresAt != nil && time.Now().After(*b.ExpiresAt)
\* Mutant: a ban is over at its expiry instant already.
Expired_Early(b) == b.ExpiresAt # Nil /\ now >= b.ExpiresAt

Expired(b) == b.ExpiresAt # Nil /\ now > b.ExpiresAt

\* Mutant: an ip is under the limit only while nobody is banned.
UnderLimit_UnlessBanned(count) == count <= cfg.RequestLimit /\ bannedCache = EmptyMap

\* Mutant: the limit itself is already over the limit.
UnderLimit_Strict(count) == count < cfg.RequestLimit

UnderLimit(count) == count <= cfg.RequestLimit

\* Mutant: the ban comes one throttle late.
ReachedThrottleLimit_Late(n) == n > cfg.ThrottleLimit

ReachedThrottleLimit(n) == n >= cfg.ThrottleLimit

\* int(l.cfg.RequestWindow.Seconds())
RetryAfterSeconds == cfg.RequestWindow \div TicksPerSec

Decision(action, ip, reason, retry) ==
  [Action |-> action, IP |-> ip, Reason |-> reason, RetryAfter |-> retry]

RequestLog(t, ip) == [Time |-> t, IP |-> ip, Method |-> "GET", Path |-> "/test"]

Ban(ip, reason, bannedAt, expiresAt) ==
  [IP |-> ip, Reason |-> reason, BannedAt |-> bannedAt, ExpiresAt |-> expiresAt]

\* ------------------------------------------------------------ the table
\* Outcomes of one statement on the table: it succeeds, or (only when the
\* store is faulty) it fails and changes nothing.
DbOutcomes == IF faulty THEN BOOLEAN ELSE {TRUE}

\* The error a call returns for its statement on the table: if err != nil { return ..., err }
\* Mutant: the error is dropped and the call reports success.
StorageError_Dropped(ok) == FALSE

StorageError(ok) == ~ok

\* INSERT ... ON CONFLICT(ip) DO UPDATE: the row replaces any row of the ip.
\* Mutant: the row is not written.
BanIP_Lost(b) == store

\* Mutant: ON CONFLICT(ip) DO NOTHING, the row of a banned ip stays.
BanIP_KeepOld(b) ==
  IF b.IP \in DOMAIN store THEN store
  ELSE Put(store, b.IP, Ban(b.IP, b.Reason, FormatRFC3339(b.BannedAt), nullableTime(b.ExpiresAt)))

BanIP(b) ==
  Put(store, b.IP, Ban(b.IP, b.Reason, FormatRFC3339(b.BannedAt), nullableTime(b.ExpiresAt)))

\* DELETE FROM banned_ips WHERE ip=?
\* Mutant: the rows of all ips are deleted.
UnbanIP_All(ip) == EmptyMap

\* Mutant: the row is not deleted.
UnbanIP_Kept(ip) == store

UnbanIP(ip) == Delete(store, ip)

\* SELECT ... FROM banned_ips: the rows with their instants parsed back.
ListBans ==
  [ip \in DOMAIN store |->
     Ban(ip, store[ip].Reason, ParseRFC3339(store[ip].BannedAt),
         IF store[ip].ExpiresAt = Nil THEN Nil ELSE ParseRFC3339(store[ip].ExpiresAt))]

\* delete_expired(now): the rows whose expires_at is present and strictly in the past.
ExpiredRows ==
  {ip \in DOMAIN store : store[ip].ExpiresAt # Nil /\ ParseRFC3339(store[ip].ExpiresAt) < now}

DeleteExpiredBans == [ip \in DOMAIN store \ ExpiredRows |-> store[ip]]

\* --------------------------------------------------------------- results
Ret(op, ip, action, reason, retry, banned, err) ==
  [op |-> op, IP |-> ip, Action |-> action, Reason |-> reason, RetryAfter |-> retry,
   banned |-> banned, err |-> err, swallowed |-> FALSE, list |-> <<>>, url |-> "",
   panic |-> FALSE, failed |-> FALSE, over |-> {}, status |-> 0]

NoRet == Ret("none", "", "", "", 0, FALSE, FALSE)

NoIssue == [kind |-> "none", Reason |-> "", ExpiresAt |-> Nil, epoch |-> 0, Duration |-> 0]

\* The Limiter has no cleanup goroutine.
NoTask == [asked |-> FALSE, pc |-> "none", deleted |-> 0, owed |-> 0, pending |-> FALSE]

\* A mutating call ends the window in which LoadBans hydrates a new Limiter.
Used == IF engine = "new" THEN "serving" ELSE engine

\* ---------------------------------------------------------------- ghosts
\* Whether every event the ip has in its two counters lies within its window
\* at the present instant.
AllInWindow(ip) ==
  /\ \A i \in 1..Len(Get(reqByIP, ip, <<>>)) : reqByIP[ip][i] >= now - cfg.RequestWindow
  /\ \A i \in 1..Len(Get(throttleByIP, ip, <<>>)) : throttleByIP[ip][i] >= now - cfg.ThrottleWindow

CallsMade == Len(hist["10.0.0.1"]) + Len(hist["10.0.0.2"])

\* The frame of everything but the subscriber list and the notifications.
NotifyFrame == UNCHANGED <<callbacks, listed, calls, wire, inbox>>

\* ------------------------------------------------------------ LogRequest
\* Mutant: the flag is not remembered.
MarkFlagged_Forget(r) == flaggedIPs

\* l.flaggedIPs[r.IP] = r.Time
MarkFlagged(r) == Put(flaggedIPs, r.IP, r.Time)

\* Mutant: the ring never drops its oldest event.
RingRoom_Grow(q) == q

\* if len(l.recentRequests) >= l.cfg.InMemoryLogLimit { l.recentRequests = l.recentRequests[1:] }
RingRoom(q) == IF Len(q) >= cfg.InMemoryLogLimit THEN Tail(q) ELSE q

\* l.recentRequests[1:] of a ring without events: slice bounds out of range [1:0].
RingPanics(q) == Len(q) >= cfg.InMemoryLogLimit /\ Len(q) = 0

\* Mutant: a flag lasts only as long as the request window it was raised in.
Flagged_WhileInWindow(ip) ==
  ip \in DOMAIN flaggedIPs /\ flaggedIPs[ip] >= now - cfg.RequestWindow

\* _, flagged := l.flaggedIPs[r.IP]
Flagged(ip) == ip \in DOMAIN flaggedIPs

\* Mutant: the flagging request is counted as a throttle event too.
CountsThrottle_OnFlag(d) == d.Action # ActionAllow

\* The throttle counter is written behind the two early returns (ALLOW, FLAG) only.
CountsThrottle(d) == d.Action \in {ActionThrottle, ActionBan}

\* The run-time panic in LogRequest: the deferred unlock runs, nothing was written yet.
LogRequestPanics(r) ==
  /\ ret' = [Ret("LogRequest", r.IP, "", "", 0, FALSE, FALSE) EXCEPT !.panic = TRUE]
  /\ UNCHANGED <<cfg, now, reqByIP, flaggedIPs, throttleByIP, bannedCache, recentRequests,
                 store, faulty, cleanup, ctx, engine, restarts, hist, inWin, issued, perThread>>
  /\ NotifyFrame

\* The rate limit check of LogRequest for r: the request list and the throttle list
\* as pruned and extended, and the Decision.
Ladder(r) ==
  LET reqs == Append(prune(Get(reqByIP, r.IP, <<>>), cfg.RequestWindow), r.Time)
      count == Len(reqs)
      flagged == Flagged(r.IP)
      thrs == Append(prune(Get(throttleByIP, r.IP, <<>>), cfg.ThrottleWindow), r.Time)
      d == IF UnderLimit(count) THEN Decision(ActionAllow, r.IP, "", 0)
           ELSE IF ~flagged THEN Decision(ActionFlag, r.IP, FlagReason, 0)
           ELSE IF ReachedThrottleLimit(Len(thrs))
                  THEN Decision(ActionBan, r.IP, AutoBanReason, 0)
                  ELSE Decision(ActionThrottle, r.IP, ThrottleReason, RetryAfterSeconds)
  IN [reqs |-> reqs, thrs |-> thrs, d |-> d]

\* The body of Limiter.LogRequest, run under l.mu; r.Time was stamped by the caller.
LogRequest(r) ==
  IF RingPanics(recentRequests) THEN LogRequestPanics(r) ELSE
  LET ring == RingRoom(recentRequests)
      reqs == Ladder(r).reqs
      thrs == Ladder(r).thrs
      d == Ladder(r).d
  IN /\ recentRequests' = Append(ring, r)
     /\ reqByIP' = Put(reqByIP, r.IP, reqs)
     /\ flaggedIPs' = IF d.Action = ActionFlag THEN MarkFlagged(r) ELSE flaggedIPs
     /\ throttleByIP' = IF CountsThrottle(d) THEN Put(throttleByIP, r.IP, thrs)
                                              ELSE throttleByIP
     /\ ret' = Ret("LogRequest", r.IP, d.Action, d.Reason, d.RetryAfter, FALSE, FALSE)
     /\ hist' = [hist EXCEPT ![r.IP] = Append(@, d.Action)]
     /\ inWin' = [inWin EXCEPT ![r.IP] = @ /\ AllInWindow(r.IP)]
     /\ engine' = Used
     /\ UNCHANGED <<cfg, now, bannedCache, store, faulty, cleanup, ctx, restarts, issued, perThread>>
     /\ NotifyFrame

\* A caller stamps the request (time.Now() in its handler) and then calls; handlers
\* run concurrently, so a stamp may lie before the instant the lock is acquired.
LogRequestCall(ip, lag) ==
  /\ CallsMade < MaxCalls
  /\ now - lag >= 0
  /\ LogRequest(RequestLog(now - lag, ip))
  /\ UNCHANGED <<thr, tally>>

\* The frame of the calls that touch neither the counters nor the callers.
BanFrame == UNCHANGED <<cfg, now, reqByIP, flaggedIPs, throttleByIP, recentRequests, faulty,
                        cleanup, ctx, restarts, hist, inWin, thr, perThread, tally,
                        callbacks, listed, calls, wire, inbox>>

\* -------------------------------------------------------- RecentRequests
\* out := make(...); copy(out, l.recentRequests); return out
RecentRequests ==
  /\ ret' = [Ret("RecentRequests", "", "", "", 0, FALSE, FALSE) EXCEPT !.list = recentRequests]
  /\ UNCHANGED <<bannedCache, store, engine, issued>>
  /\ BanFrame

\* -------------------------------------------------------------- IsBanned
IsBanned(ip) ==
  /\ IF ip \notin DOMAIN bannedCache
       THEN /\ ret' = Ret("IsBanned", ip, "", "", 0, FALSE, FALSE)
            /\ UNCHANGED <<bannedCache, store>>
       ELSE IF Expired(bannedCache[ip])
         THEN /\ bannedCache' = Delete(bannedCache, ip)
              /\ \E ok \in DbOutcomes :
                   /\ store' = IF ok THEN UnbanIP(ip) ELSE store
                   /\ ret' = [Ret("IsBanned", ip, "", "", 0, FALSE, FALSE)
                               EXCEPT !.swallowed = ~ok, !.failed = ~ok]
         ELSE /\ ret' = Ret("IsBanned", ip, "", bannedCache[ip].Reason, 0, TRUE, FALSE)
              /\ UNCHANGED <<bannedCache, store>>
  /\ UNCHANGED <<engine, issued>>
  /\ BanFrame

\* --------------------------------------------------------------- Inspect
Inspect(ip) ==
  LET has == ip \in DOMAIN bannedCache
      lapsed == has /\ Expired(bannedCache[ip])
      throttles == prune(Get(throttleByIP, ip, <<>>), cfg.ThrottleWindow)
      d == IF has /\ ~lapsed THEN Decision(ActionBan, ip, bannedCache[ip].Reason, 0)
           ELSE IF Len(throttles) > 0
                  THEN Decision(ActionThrottle, ip, ThrottleReason, RetryAfterSeconds)
           ELSE IF ip \in DOMAIN flaggedIPs THEN Decision(ActionFlag, ip, FlagReason, 0)
           ELSE Decision(ActionAllow, ip, "", 0)
  IN /\ IF lapsed
          THEN /\ bannedCache' = Delete(bannedCache, ip)
               /\ \E ok \in DbOutcomes :
                    /\ store' = IF ok THEN UnbanIP(ip) ELSE store
                    /\ ret' = [Ret("Inspect", ip, d.Action, d.Reason, d.RetryAfter, FALSE, FALSE)
                                EXCEPT !.swallowed = ~ok, !.failed = ~ok]
          ELSE /\ UNCHANGED <<bannedCache, store>>
               /\ ret' = Ret("Inspect", ip, d.Action, d.Reason, d.RetryAfter, FALSE, FALSE)
     /\ UNCHANGED <<engine, issued>>
     /\ BanFrame

\* ------------------------------------------------------------- RecordBan
\* Writes the ban b: the table first; the mirror only when the table took it.
WriteBan(op, b, kind, duration) ==
  /\ \E ok \in DbOutcomes :
       IF ok
         THEN /\ store' = BanIP(b)
              /\ bannedCache' = Put(bannedCache, b.IP, b)
              /\ ret' = Ret(op, b.IP, "", b.Reason, 0, FALSE, FALSE)
              /\ issued' = [issued EXCEPT ![b.IP] =
                   [kind |-> kind, Reason |-> b.Reason, ExpiresAt |-> b.ExpiresAt,
                    epoch |-> restarts, Duration |-> duration]]
         ELSE /\ ret' = [Ret(op, b.IP, "", "", 0, FALSE, StorageError(ok)) EXCEPT !.failed = TRUE]
              /\ UNCHANGED <<store, bannedCache, issued>>
  /\ engine' = Used
  /\ BanFrame

RecordBan(ip, reason) ==
  WriteBan("RecordBan", Ban(ip, reason, now, now + cfg.BanDuration), "auto", cfg.BanDuration)

\* Mutant: a duration of 0 gives an expiry too.
ManualExpiry_Always(duration) == now + duration

\* var exp *time.Time; if duration > 0 { t := time.Now().Add(duration); exp = &t }
ManualExpiry(duration) == IF duration > 0 THEN now + duration ELSE Nil

RecordManualBan(ip, reason, duration) ==
  WriteBan("RecordManualBan", Ban(ip, reason, now, ManualExpiry(duration)), "manual", duration)

\* ------------------------------------------- the clock reads of a ban call
\* RecordBan and RecordManualBan read the clock twice under l.mu: the expiry is
\* computed from the first reading, banned_at is the second.  The clock advances
\* by drift ticks between the two.  The result remembers in over the mirror entry
\* the call wrote over.
WriteBanTwoReads(op, b, kind, duration, drift) ==
  /\ now + drift <= MaxTime
  /\ now' = now + drift
  /\ store' = BanIP(b)
  /\ bannedCache' = Put(bannedCache, b.IP, b)
  /\ ret' = [Ret(op, b.IP, "", b.Reason, 0, FALSE, FALSE)
              EXCEPT !.over = {bannedCache[i] : i \in DOMAIN bannedCache \cap {b.IP}}]
  /\ issued' = [issued EXCEPT ![b.IP] =
       [kind |-> kind, Reason |-> b.Reason, ExpiresAt |-> b.ExpiresAt,
        epoch |-> restarts, Duration |-> duration]]
  /\ engine' = Used
  /\ UNCHANGED <<cfg, reqByIP, flaggedIPs, throttleByIP, recentRequests, faulty, cleanup,
                 ctx, restarts, hist, inWin, thr, perThread, tally>>
  /\ NotifyFrame

\* exp := time.Now().Add(l.cfg.BanDuration); ...; BannedAt: time.Now()
RecordBanTwoReads(ip, reason, drift) ==
  WriteBanTwoReads("RecordBan", Ban(ip, reason, now + drift, now + cfg.BanDuration), "auto",
                   cfg.BanDuration, drift)

\* t := time.Now().Add(duration); ...; BannedAt: time.Now()
RecordManualBanTwoReads(ip, reason, duration, drift) ==
  WriteBanTwoReads("RecordManualBan", Ban(ip, reason, now + drift, ManualExpiry(duration)),
                   "manual", duration, drift)

\* ----------------------------------------------------------------- Unban
\* Mutant: the mirror entry goes only when the table row went.
UnbanMirror_AfterStore(ip, ok) == IF ok THEN Delete(bannedCache, ip) ELSE bannedCache

\* delete(l.bannedCache, ip) comes before l.db.UnbanIP(ip), whatever that returns.
UnbanMirror(ip, ok) == Delete(bannedCache, ip)

Unban(ip) ==
  /\ \E ok \in DbOutcomes :
       /\ bannedCache' = UnbanMirror(ip, ok)
       /\ store' = IF ok THEN UnbanIP(ip) ELSE store
       /\ ret' = [Ret("Unban", ip, "", "", 0, FALSE, StorageError(ok)) EXCEPT !.failed = ~ok]
  /\ issued' = [issued EXCEPT ![ip] = IF @.kind = "none" THEN @ ELSE [@ EXCEPT !.kind = "unbanned"]]
  /\ engine' = Used
  /\ BanFrame

\* ------------------------------------------------------------- callbacks
\* The frame of the calls on the subscriber list.
EngineFrame == UNCHANGED <<cfg, now, reqByIP, flaggedIPs, throttleByIP, bannedCache,
                           recentRequests, store, faulty, cleanup, ctx, engine, restarts,
                           hist, inWin, issued, thr, perThread, tally>>

\* The places of the slice that hold url.
Places(s, url) == {i \in 1..s.len : s.arr[i] = url}

First(S) == CHOOSE i \in S : \A j \in S : i <= j

\* Mutant: a URL is appended whether or not it is registered already.
Register_NoDedup(s, url) == AppendSlice(s, url)

\* for _, u := range l.callbacks { if u == url { return } }; append
Register(s, url) == IF Places(s, url) # {} THEN s ELSE AppendSlice(s, url)

\* for i, u := range l.callbacks { if u == url { remove place i; return } }
Unregister(s, url) == IF Places(s, url) = {} THEN s ELSE RemoveAt(s, First(Places(s, url)))

RegisterCallback(url) ==
  /\ callbacks' = Register(callbacks, url)
  /\ ret' = [Ret("RegisterCallback", "", "", "", 0, FALSE, FALSE) EXCEPT !.url = url]
  /\ UNCHANGED <<listed, calls, wire, inbox>>
  /\ EngineFrame

UnregisterCallback(url) ==
  /\ callbacks' = Unregister(callbacks, url)
  /\ ret' = [Ret("UnregisterCallback", "", "", "", 0, FALSE, FALSE) EXCEPT !.url = url]
  /\ UNCHANGED <<listed, calls, wire, inbox>>
  /\ EngineFrame

\* What the holder of a handed-out list reads in it now.
Held(l) == IF l.alias THEN SubSeq(callbacks.arr, 1, Len(l.elems)) ELSE l.elems

Callbacks ==
  /\ listed' = CopyOut(Elems(callbacks))
  /\ ret' = [Ret("Callbacks", "", "", "", 0, FALSE, FALSE) EXCEPT !.list = Elems(callbacks)]
  /\ UNCHANGED <<callbacks, calls, wire, inbox>>
  /\ EngineFrame

\* ------------------------------------------------------- NotifyCallbacks
\* json.Marshal(d): reason and retry_after are left out when empty or zero.
Marshal(d) ==
  [k \in {"action", "ip"} \cup (IF d.Reason # "" THEN {"reason"} ELSE {})
                           \cup (IF d.RetryAfter # 0 THEN {"retry_after"} ELSE {}) |->
     CASE k = "action" -> d.Action
       [] k = "ip" -> d.IP
       [] k = "reason" -> d.Reason
       [] k = "retry_after" -> d.RetryAfter]

\* The subscriber's json decoding into its own Decision: absent fields are zero.
Unmarshal(body) ==
  Decision(body["action"], body["ip"],
           IF "reason" \in DOMAIN body THEN body["reason"] ELSE "",
           IF "retry_after" \in DOMAIN body THEN body["retry_after"] ELSE 0)

\* Mutant: every event goes out under the same header.
EventHeader_Fixed(d) == ActionBan

\* req.Header.Set("X-Tower-Event", string(d.Action))
EventHeader(d) == d.Action

\* Mutant: ALLOW decisions are sent out as well.
Silent_Never(urls, d) == Len(urls) = 0

\* if len(urls) == 0 || d.Action == ActionAllow { return }
Silent(urls, d) == Len(urls) = 0 \/ d.Action = ActionAllow

\* The first part of NotifyCallbacks(d): the snapshot of the subscriber URLs under l.mu.
NotifySnapshot(d) ==
  /\ Len(calls) < MaxNotify
  /\ calls' = Append(calls, [d |-> d, urls |-> CopyOut(Elems(callbacks)), pc |-> "snapshot",
                             sent |-> <<>>, at |-> <<>>])
  /\ UNCHANGED <<callbacks, listed, wire, inbox, ret>>
  /\ EngineFrame

\* The second part, outside l.mu: one goroutine with one POST for each URL of the snapshot.
NotifyDispatch(id) ==
  /\ id \in 1..Len(calls)
  /\ calls[id].pc = "snapshot"
  /\ LET d == calls[id].d
         urls == Held(calls[id].urls)
         posts == IF Silent(urls, d) THEN <<>>
                  ELSE [k \in 1..Len(urls) |->
                          [id |-> id, n |-> k, target |-> urls[k], body |-> Marshal(d),
                           event |-> EventHeader(d)]]
     IN /\ wire' = wire \cup {posts[k] : k \in 1..Len(posts)}
        /\ calls' = [calls EXCEPT ![id] = [@ EXCEPT !.pc = "done", !.sent = posts,
                                                    !.at = Elems(callbacks)]]
  /\ UNCHANGED <<callbacks, listed, inbox, ret>>
  /\ EngineFrame

\* A responsive subscriber receives one of the POSTs under way and decodes it.
Deliver(p) ==
  /\ p \in wire
  /\ p.target \in Responsive
  /\ inbox' = inbox \cup {[id |-> p.id, n |-> p.n, target |-> p.target,
                            d |-> Unmarshal(p.body), event |-> p.event]}
  /\ wire' = wire \ {p}
  /\ UNCHANGED <<callbacks, listed, calls, ret>>
  /\ EngineFrame

\* Mutant: a POST that failed is sent again.
Dropped_Retried(p) == wire

\* resp, err := http.DefaultClient.Do(req); if err == nil { resp.Body.Close() }: the
\* goroutine ends with its POST, whatever the outcome.
Dropped(p) == wire \ {p}

\* http.DefaultClient.Do fails or times out: the error is dropped, nothing is retried.
PostFails(p) ==
  /\ p \in wire
  /\ p.target \notin Responsive
  /\ wire' = Dropped(p)
  /\ UNCHANGED <<callbacks, listed, calls, inbox, ret>>
  /\ EngineFrame

\* -------------------------------------------------------------- LoadBans
\* Startup hydration: every caller runs it on a Limiter that has written nothing yet.
LoadBans ==
  /\ engine = "new"
  /\ \E ok \in DbOutcomes :
       IF ok
         THEN /\ bannedCache' = [ip \in DOMAIN bannedCache \cup DOMAIN store |->
                                   IF ip \in DOMAIN store THEN ListBans[ip] ELSE bannedCache[ip]]
              /\ engine' = "hydrated"
              /\ ret' = Ret("LoadBans", "", "", "", 0, FALSE, FALSE)
         ELSE /\ ret' = [Ret("LoadBans", "", "", "", 0, FALSE, StorageError(ok)) EXCEPT !.failed = TRUE]
              /\ UNCHANGED <<bannedCache, engine>>
  /\ UNCHANGED <<store, issued>>
  /\ BanFrame

\* ------------------------------------------------------------ NewLimiter
\* The process ends and a new one constructs a Limiter on the same table.
NewLimiter ==
  /\ restarts = 0
  /\ restarts' = restarts + 1
  /\ reqByIP' = EmptyMap
  /\ flaggedIPs' = EmptyMap
  /\ throttleByIP' = EmptyMap
  /\ bannedCache' = EmptyMap
  /\ recentRequests' = <<>>
  /\ cleanup' = NoTask
  /\ ctx' = "live"
  /\ engine' = "new"
  /\ ret' = NoRet
  /\ hist' = [ip \in IPs |-> <<>>]
  /\ inWin' = [ip \in IPs |-> TRUE]
  /\ callbacks' = NilSlice
  /\ calls' = <<>>
  /\ wire' = {}
  /\ UNCHANGED <<cfg, now, store, faulty, issued, thr, perThread, tally, listed, inbox>>

\* --------------------------------------------------------------- cleanup
\* StartCleanup: no goroutine for a non-positive interval; else one that waits in
\* its select.  serveCmd calls it once, on the Limiter it has hydrated.
StartCleanup ==
  /\ engine = "hydrated"
  /\ ~cleanup.asked
  /\ cleanup' = [cleanup EXCEPT !.asked = TRUE,
                                !.pc = IF cfg.CleanupInterval <= 0 THEN "none" ELSE "idle"]
  /\ UNCHANGED <<cfg, now, reqByIP, flaggedIPs, throttleByIP, bannedCache, recentRequests,
                 store, faulty, ctx, engine, restarts, ret, hist, inWin, issued, thr,
                 perThread, tally>>
  /\ NotifyFrame

\* The select takes a tick: the one waiting in ticker.C, or the one that arrives while
\* the goroutine waits and the context is live.  With the context done and a tick
\* waiting both cases are ready and the choice is the runtime's.
\* runCleanup, first half: DeleteExpiredBans, outside l.mu; its error is dropped.
CleanupDelete ==
  /\ cleanup.pc = "idle"
  /\ ctx = "live" \/ cleanup.pending
  /\ \E ok \in DbOutcomes :
       /\ store' = IF ok THEN DeleteExpiredBans ELSE store
       /\ cleanup' = [cleanup EXCEPT !.pc = "sweep",
                                     !.deleted = IF ok THEN Cardinality(ExpiredRows) ELSE 0,
                                     !.owed = 1, !.pending = FALSE]
  /\ UNCHANGED <<cfg, now, reqByIP, flaggedIPs, throttleByIP, bannedCache, recentRequests,
                 faulty, ctx, engine, restarts, ret, hist, inWin, issued, thr, perThread,
                 tally>>
  /\ NotifyFrame

\* Mutant: the mirror is swept on every tick.
SweepDue_Always(deleted) == TRUE

\* if deleted > 0 { ... }
SweepDue(deleted) == deleted > 0

\* l.db.IncrementalVacuum(): the compaction the tick owes is requested.
IncrementalVacuum(owed) == 0

\* runCleanup, second half: the sweep of the mirror under l.mu, then the vacuum.
CleanupSweep ==
  /\ cleanup.pc = "sweep"
  /\ bannedCache' = IF SweepDue(cleanup.deleted)
                      THEN [ip \in {i \in DOMAIN bannedCache : ~Expired(bannedCache[i])} |->
                              bannedCache[ip]]
                      ELSE bannedCache
  /\ cleanup' = [cleanup EXCEPT !.pc = "idle", !.deleted = 0,
                                !.owed = IncrementalVacuum(cleanup.owed)]
  /\ UNCHANGED <<cfg, now, reqByIP, flaggedIPs, throttleByIP, recentRequests, store,
                 faulty, ctx, engine, restarts, ret, hist, inWin, issued, thr, perThread,
                 tally>>
  /\ NotifyFrame

\* The ticker fires while the goroutine is inside runCleanup or has not yet been
\* woken from its select: the tick waits in ticker.C, which holds one.
TickerFires ==
  /\ cleanup.pc \in {"idle", "sweep"}
  /\ ~cleanup.pending
  /\ cleanup' = [cleanup EXCEPT !.pending = TRUE]
  /\ UNCHANGED <<cfg, now, reqByIP, flaggedIPs, throttleByIP, bannedCache, recentRequests,
                 store, faulty, ctx, engine, restarts, ret, hist, inWin, issued, thr,
                 perThread, tally>>
  /\ NotifyFrame

\* serveCmd's cleanupCancel(): the context is done.
Cancel ==
  /\ ctx = "live"
  /\ ctx' = "done"
  /\ UNCHANGED <<cfg, now, reqByIP, flaggedIPs, throttleByIP, bannedCache, recentRequests,
                 store, faulty, cleanup, engine, restarts, ret, hist, inWin, issued, thr,
                 perThread, tally>>
  /\ NotifyFrame

\* The select takes <-ctx.Done(): the goroutine returns and stops its ticker.
CleanupExit ==
  /\ cleanup.pc = "idle"
  /\ ctx = "done"
  /\ cleanup' = [cleanup EXCEPT !.pc = "exited", !.pending = FALSE]
  /\ UNCHANGED <<cfg, now, reqByIP, flaggedIPs, throttleByIP, bannedCache, recentRequests,
                 store, faulty, ctx, engine, restarts, ret, hist, inWin, issued, thr,
                 perThread, tally>>
  /\ NotifyFrame

\* ------------------------------------------------------------- transport
StatusOK == 200
StatusForbidden == 403
StatusTooManyRequests == 429

\* if ip == "" { ip = ctx.IP }: the ip of the payload, else the caller's own.
ReportedIP(caller, payloadIP) == IF payloadIP = "" THEN caller ELSE payloadIP

\* One authenticated POST /log from caller whose payload names payloadIP ("" for
\* none), on a healthy table.  authUser asks IsBanned for the caller's ip and answers
\* 403 when it is banned; else handleLog logs the request for the reported ip,
\* records the ban when the decision is BAN, and maps the decision to the status.
HandleLog(caller, payloadIP) ==
  /\ LET has == caller \in DOMAIN bannedCache
         lapsed == has /\ Expired(bannedCache[caller])
         mirror == IF lapsed THEN Delete(bannedCache, caller) ELSE bannedCache
         table == IF lapsed THEN UnbanIP(caller) ELSE store
         ip == ReportedIP(caller, payloadIP)
         r == RequestLog(now, ip)
         d == Ladder(r).d
         b == Ban(ip, AutoBanReason, now, now + cfg.BanDuration)
     IN IF has /\ ~lapsed
          THEN /\ ret' = [Ret("handleLog", ip, "", bannedCache[caller].Reason, 0, TRUE, FALSE)
                            EXCEPT !.status = StatusForbidden]
               /\ UNCHANGED <<reqByIP, flaggedIPs, throttleByIP, bannedCache, recentRequests,
                              store, engine, hist, inWin, issued>>
          ELSE /\ CallsMade < MaxCalls
               /\ recentRequests' = Append(RingRoom(recentRequests), r)
               /\ reqByIP' = Put(reqByIP, ip, Ladder(r).reqs)
               /\ flaggedIPs' = IF d.Action = ActionFlag THEN MarkFlagged(r) ELSE flaggedIPs
               /\ throttleByIP' = IF CountsThrottle(d) THEN Put(throttleByIP, ip, Ladder(r).thrs)
                                                        ELSE throttleByIP
               /\ hist' = [hist EXCEPT ![ip] = Append(@, d.Action)]
               /\ inWin' = [inWin EXCEPT ![ip] = @ /\ AllInWindow(ip)]
               /\ engine' = Used
               /\ IF d.Action = ActionBan
                    THEN /\ bannedCache' = Put(mirror, ip, b)
                         /\ store' = Put(table, ip, Ban(ip, b.Reason, FormatRFC3339(b.BannedAt),
                                                        nullableTime(b.ExpiresAt)))
                         /\ issued' = [issued EXCEPT ![ip] =
                              [kind |-> "auto", Reason |-> b.Reason, ExpiresAt |-> b.ExpiresAt,
                               epoch |-> restarts, Duration |-> cfg.BanDuration]]
                    ELSE /\ bannedCache' = mirror
                         /\ store' = table
                         /\ issued' = issued
               /\ ret' = [Ret("handleLog", ip, d.Action, d.Reason, d.RetryAfter, FALSE, FALSE)
                            EXCEPT !.status = CASE d.Action = ActionBan -> StatusForbidden
                                                [] d.Action = ActionThrottle -> StatusTooManyRequests
                                                [] OTHER -> StatusOK]
  /\ UNCHANGED <<cfg, now, faulty, cleanup, ctx, restarts, thr, perThread, tally>>
  /\ NotifyFrame

\* ----------------------------------------------------------------- clock
Tick ==
  /\ now < MaxTime
  /\ now' = now + 1
  /\ UNCHANGED <<cfg, reqByIP, flaggedIPs, throttleByIP, bannedCache, recentRequests,
                 store, faulty, cleanup, ctx, engine, restarts, ret, hist, inWin, issued,
                 thr, perThread, tally>>
  /\ NotifyFrame

\* ------------------------------------------------- concurrent callers
\* The ip all concurrent callers report.
SameIP == "10.0.0.1"

\* Numbers of calls each concurrent caller may issue.
CallChoices == {1, 2}

\* handleLog builds the RequestLog with Time: time.Now() before LogRequest takes l.mu.
ThreadStamp(t) ==
  /\ thr[t].pc = "idle"
  /\ thr' = [thr EXCEPT ![t] = [pc |-> "stamped", stamp |-> now, left |-> @.left]]
  /\ UNCHANGED <<cfg, now, reqByIP, flaggedIPs, throttleByIP, bannedCache, recentRequests,
                 store, faulty, cleanup, ctx, engine, restarts, ret, hist, inWin, issued,
                 perThread, tally>>
  /\ NotifyFrame

\* The caller gets l.mu, runs LogRequest and receives its Decision.
ThreadLogRequest(t) ==
  /\ thr[t].pc = "stamped"
  /\ LogRequest(RequestLog(thr[t].stamp, SameIP))
  /\ thr' = [thr EXCEPT ![t] = [pc |-> IF @.left = 1 THEN "done" ELSE "idle",
                                stamp |-> 0, left |-> @.left - 1]]
  /\ tally' = [tally EXCEPT ![ret'.Action] = @ + 1]

\* ------------------------------------------------------ the specifications
Actions == {ActionAllow, ActionFlag, ActionThrottle, ActionBan}

InitEngine ==
  /\ now = 0
  /\ reqByIP = EmptyMap
  /\ flaggedIPs = EmptyMap
  /\ throttleByIP = EmptyMap
  /\ bannedCache = EmptyMap
  /\ recentRequests = <<>>
  /\ store = EmptyMap
  /\ cleanup = NoTask
  /\ ctx = "live"
  /\ engine = "new"
  /\ restarts = 0
  /\ ret = NoRet
  /\ hist = [ip \in IPs |-> <<>>]
  /\ inWin = [ip \in IPs |-> TRUE]
  /\ issued = [ip \in IPs |-> NoIssue]
  /\ callbacks = NilSlice
  /\ listed = CopyOut(<<>>)
  /\ calls = <<>>
  /\ wire = {}
  /\ inbox = {}

NoCallers ==
  /\ thr = [t \in Threads |-> [pc |-> "off", stamp |-> 0, left |-> 0]]
  /\ perThread = 0
  /\ tally = [a \in Actions |-> 0]

\* The engine with its ban store, serving one client ip.
Client == "10.0.0.1"

Init ==
  /\ InitEngine
  /\ NoCallers
  /\ cfg \in {c \in Configs : c.RequestLimit = 1}
  /\ faulty = FALSE

Next ==
  \/ LogRequestCall(Client, 0)
  \/ IsBanned(Client)
  \/ Inspect(Client)
  \/ RecordBan(Client, AutoBanReason)
  \/ \E reason \in ManualReasons, d \in ManualDurations : RecordManualBan(Client, reason, d)
  \/ Unban(Client)
  \/ LoadBans
  \/ NewLimiter
  \/ StartCleanup
  \/ CleanupDelete
  \/ CleanupSweep
  \/ Tick

Spec == Init /\ [][Next]_vars

\* The ladder alone: every configuration, two ips, callers whose stamps lag.
InitLadder ==
  /\ InitEngine
  /\ NoCallers
  /\ cfg \in Configs
  /\ faulty = FALSE

NextLadder ==
  \/ \E ip \in IPs, lag \in 0..MaxLag : LogRequestCall(ip, lag)
  \/ \E ip \in IPs : Inspect(ip)
  \/ Tick

SpecLadder == InitLadder /\ [][NextLadder]_vars

\* NumThreads concurrent callers, each issuing perThread calls for the same ip.
InitConc ==
  /\ InitEngine
  /\ cfg \in Configs
  /\ faulty = FALSE
  /\ perThread \in CallChoices
  /\ thr = [t \in Threads |-> [pc |-> "idle", stamp |-> 0, left |-> perThread]]
  /\ tally = [a \in Actions |-> 0]

NextConc ==
  \/ \E t \in Threads : ThreadStamp(t)
  \/ \E t \in Threads : ThreadLogRequest(t)
  \/ Tick

SpecConc == InitConc /\ [][NextConc]_vars

\* The ban operations against a table whose writes and deletes may fail.
InitFault == InitEngine /\ NoCallers /\ cfg \in {c \in Configs : c.RequestLimit = 1} /\ faulty = TRUE

NextFault ==
  \/ IsBanned(Client)
  \/ Inspect(Client)
  \/ RecordBan(Client, AutoBanReason)
  \/ \E reason \in ManualReasons, d \in ManualDurations : RecordManualBan(Client, reason, d)
  \/ Unban(Client)
  \/ LoadBans
  \/ NewLimiter
  \/ StartCleanup
  \/ CleanupDelete
  \/ CleanupSweep
  \/ Tick

SpecFault == InitFault /\ [][NextFault]_vars

\* The ban operations on two ips, with restart and the cleanup task.
InitBans ==
  /\ InitEngine
  /\ NoCallers
  /\ cfg \in {c \in Configs : c.RequestLimit = 1 /\ c.ThrottleLimit = 1}
  /\ faulty = FALSE

NextBans ==
  \/ \E ip \in IPs : IsBanned(ip)
  \/ \E ip \in IPs : Inspect(ip)
  \/ \E ip \in IPs : RecordBan(ip, AutoBanReason)
  \/ \E ip \in IPs, reason \in ManualReasons, d \in ManualDurations : RecordManualBan(ip, reason, d)
  \/ \E ip \in IPs : Unban(ip)
  \/ LoadBans
  \/ NewLimiter
  \/ StartCleanup
  \/ CleanupDelete
  \/ CleanupSweep
  \/ Tick

SpecBans == InitBans /\ [][NextBans]_vars

\* The recent-events ring: calls for two ips with lagging stamps, and its readers.
InitRing ==
  /\ InitEngine
  /\ NoCallers
  /\ cfg \in Configs
  /\ faulty = FALSE

NextRing ==
  \/ \E ip \in IPs, lag \in 0..MaxLag : LogRequestCall(ip, lag)
  \/ RecentRequests
  \/ Tick

SpecRing == InitRing /\ [][NextRing]_vars

\* Inspection beside the ladder: a client whose manual bans expire, a bystander
\* banned for good, and a subscriber.
Bystander == "10.0.0.2"

InitInspect ==
  /\ InitEngine
  /\ NoCallers
  /\ cfg \in {c \in Configs : c.RequestLimit = 1 /\ c.ThrottleLimit = 1}
  /\ faulty = FALSE

NextInspect ==
  \/ LogRequestCall(Client, 0)
  \/ \E ip \in IPs : Inspect(ip)
  \/ \E reason \in ManualReasons : RecordManualBan(Client, reason, 2)
  \/ \E reason \in ManualReasons : RecordManualBan(Bystander, reason, 0)
  \/ RegisterCallback("http://a")
  \/ Tick

SpecInspect == InitInspect /\ [][NextInspect]_vars

\* The decisions LogRequest hands out for the client, as NotifyCallbacks gets them.
NotifyDecisions ==
  { Decision(ActionAllow, Client, "", 0),
    Decision(ActionFlag, Client, FlagReason, 0),
    Decision(ActionThrottle, Client, ThrottleReason, RetryAfterSeconds),
    Decision(ActionBan, Client, AutoBanReason, 0) }

\* The fan-out: subscribers come and go while decisions are notified.
NotifyURLs == {"http://a", "http://down"}

InitNotify ==
  /\ InitEngine
  /\ NoCallers
  /\ cfg \in {c \in Configs : c.RequestLimit = 1 /\ c.ThrottleLimit = 1}
  /\ faulty = FALSE

NextNotify ==
  \/ \E url \in NotifyURLs : RegisterCallback(url)
  \/ \E url \in NotifyURLs : UnregisterCallback(url)
  \/ \E d \in NotifyDecisions : NotifySnapshot(d)
  \/ \E id \in 1..MaxNotify : NotifyDispatch(id)
  \/ \E p \in wire : Deliver(p)
  \/ \E p \in wire : PostFails(p)

SpecNotify == InitNotify /\ [][NextNotify]_vars

\* The fan-out with its scheduling: subscribers register, every NotifyCallbacks call
\* that took its snapshot goes on to dispatch, and every POST to a responsive
\* subscriber arrives.
NextFanOut ==
  \/ \E url \in NotifyURLs : RegisterCallback(url)
  \/ \E d \in NotifyDecisions : NotifySnapshot(d)
  \/ \E id \in 1..MaxNotify : NotifyDispatch(id)
  \/ \E p \in wire : Deliver(p)
  \/ \E p \in wire : PostFails(p)

DispatchSome == \E id \in 1..MaxNotify : NotifyDispatch(id)

DeliverSome == \E p \in wire : Deliver(p)

SpecFanOut ==
  InitNotify /\ [][NextFanOut]_vars /\ WF_vars(DispatchSome) /\ WF_vars(DeliverSome)

\* Notifications next to the decision path: the client's calls go on while POSTs
\* are under way.  A responsive subscriber answers and the 5 s timeout of the
\* request context ends a POST nobody answers (weak fairness of both).
NextPending ==
  \/ \E url \in NotifyURLs : RegisterCallback(url)
  \/ \E d \in NotifyDecisions : NotifySnapshot(d)
  \/ \E id \in 1..MaxNotify : NotifyDispatch(id)
  \/ \E p \in wire : Deliver(p)
  \/ \E p \in wire : PostFails(p)
  \/ LogRequestCall(Client, 0)
  \/ Inspect(Client)
  \/ IsBanned(Client)

TimeoutSome == \E p \in wire : PostFails(p)

SpecPending ==
  InitNotify /\ [][NextPending]_vars /\ WF_vars(DeliverSome) /\ WF_vars(TimeoutSome)

\* The subscriber list alone: three URLs registered, unregistered and listed.
NextCallbacks ==
  \/ \E url \in URLs : RegisterCallback(url)
  \/ \E url \in URLs : UnregisterCallback(url)
  \/ Callbacks

SpecCallbacks == InitNotify /\ [][NextCallbacks]_vars

\* The cleanup task of serveCmd from StartCleanup to its return, with the ticker and
\* the cancellation as separate steps.  A select with several ready cases takes
\* each of them with equal probability, so the case that returns is taken in the
\* end (strong fairness); a sweep under way runs to its end (weak fairness).
CleanupIntervals == {-1, 0, 1}

InitCleanup ==
  /\ InitEngine
  /\ NoCallers
  /\ cfg \in {[c EXCEPT !.CleanupInterval = i] :
               c \in {x \in Configs : x.RequestLimit = 1 /\ x.ThrottleLimit = 1},
               i \in CleanupIntervals}
  /\ faulty = FALSE

NextCleanup ==
  \/ LoadBans
  \/ StartCleanup
  \/ \E reason \in ManualReasons, d \in ManualDurations : RecordManualBan(Client, reason, d)
  \/ CleanupDelete
  \/ CleanupSweep
  \/ TickerFires
  \/ Cancel
  \/ CleanupExit
  \/ Tick

SpecCleanup ==
  InitCleanup /\ [][NextCleanup]_vars /\ WF_vars(CleanupSweep) /\ SF_vars(CleanupExit)

\* The six operations that name an ip, in any order: the client with its ladder,
\* its auto-ban and the queries, the bystander with requests and a manual ban.
InitIPs ==
  /\ InitEngine
  /\ NoCallers
  /\ cfg \in {c \in Configs : c.RequestLimit = 1 /\ c.ThrottleLimit = 1}
  /\ faulty = FALSE

NextIPs ==
  \/ \E ip \in IPs : LogRequestCall(ip, 0)
  \/ Inspect(Client)
  \/ IsBanned(Client)
  \/ RecordBan(Client, AutoBanReason)
  \/ \E reason \in ManualReasons : RecordManualBan(Bystander, reason, 0)
  \/ Unban(Client)
  \/ Tick

SpecIPs == InitIPs /\ [][NextIPs]_vars

\* The HTTP layer in front of the engine: POST /log from two callers, with and
\* without an ip in the payload.
InitHTTP ==
  /\ InitEngine
  /\ NoCallers
  /\ cfg \in {c \in Configs : c.RequestLimit = 1}
  /\ faulty = FALSE

NextHTTP ==
  \/ \E caller \in IPs, payloadIP \in IPs \cup {""} : HandleLog(caller, payloadIP)
  \/ \E ip \in IPs : Unban(ip)
  \/ Tick

SpecHTTP == InitHTTP /\ [][NextHTTP]_vars

\* The ban calls with the clock running between their two reads, for ban durations
\* shorter and longer than the time the clock can advance in between.
BanDurations == {1, 3}

\* The durations a caller hands to RecordManualBan: the --duration flag of ban-ip
\* takes any time.Duration, negative ones too.
AnyDurations == {-1, 0, 1, 2}

InitClock ==
  /\ InitEngine
  /\ NoCallers
  /\ cfg \in {[c EXCEPT !.BanDuration = d] :
               c \in {x \in Configs : x.RequestLimit = 1 /\ x.ThrottleLimit = 1},
               d \in BanDurations}
  /\ faulty = FALSE

NextClock ==
  \/ \E ip \in IPs, drift \in 0..MaxDrift : RecordBanTwoReads(ip, AutoBanReason, drift)
  \/ \E ip \in IPs, reason \in ManualReasons, d \in AnyDurations,
        drift \in 0..MaxDrift : RecordManualBanTwoReads(ip, reason, d, drift)
  \/ \E ip \in IPs : IsBanned(ip)
  \/ Tick

SpecClock == InitClock /\ [][NextClock]_vars

\* Construction with any configuration: NewLimiter takes what it is given.
AnyConfigs ==
  [RequestWindow : {0, 2}, RequestLimit : {-1, 0, 1}, ThrottleWindow : {0, 3},
   ThrottleLimit : {0, 1}, BanDuration : {0, 3}, InMemoryLogLimit : {0, 2},
   CleanupInterval : {1}]

InitConfig ==
  /\ InitEngine
  /\ NoCallers
  /\ cfg \in AnyConfigs
  /\ faulty = FALSE

NextConfig ==
  \/ LogRequestCall(Client, 0)
  \/ Inspect(Client)
  \/ RecordBan(Client, AutoBanReason)
  \/ Tick

SpecConfig == InitConfig /\ [][NextConfig]_vars

\* ================================================================ claims
\* What the k-th of a run of calls without pruning gets: request_limit ALLOWs, one
\* FLAG, THROTTLEs while the throttle count is below throttle_limit, then BAN.
LadderAction(k) ==
  IF k <= cfg.RequestLimit THEN ActionAllow
  ELSE IF k = cfg.RequestLimit + 1 THEN ActionFlag
  ELSE IF k <= cfg.RequestLimit + cfg.ThrottleLimit THEN ActionThrottle
  ELSE ActionBan

NotAllow(a) == a # ActionAllow

NonAllow(ip) == SelectSeq(hist[ip], NotAllow)

\* C1: from no state for x, with request_limit L >= 1 and throttle_limit T >= 2,
\* L+T+1 LogRequest calls for x that all see every earlier event inside both windows
\* return ALLOW L times, FLAG once, THROTTLE T-1 times and then BAN.
C1_Escalation ==
  \A ip \in IPs :
    (inWin[ip] /\ cfg.RequestLimit >= 1 /\ cfg.ThrottleLimit >= 2) =>
      \A k \in 1..Min(Len(hist[ip]), cfg.RequestLimit + cfg.ThrottleLimit + 1) :
        hist[ip][k] = LadderAction(k)

C1_Witness ==
  \E ip \in IPs :
    /\ inWin[ip] /\ cfg.ThrottleLimit >= 2
    /\ Len(hist[ip]) = cfg.RequestLimit + cfg.ThrottleLimit + 1
    /\ hist[ip][Len(hist[ip])] = ActionBan
    /\ hist[ip][cfg.RequestLimit + 1] = ActionFlag

C3_FlagOnce ==
  \A ip \in IPs : Cardinality({k \in 1..Len(hist[ip]) : hist[ip][k] = ActionFlag}) <= 1

C3_Witness ==
  /\ Len(hist[Client]) = 4
  /\ hist[Client][2] = ActionFlag
  /\ hist[Client][3] = ActionAllow
  /\ hist[Client][4] \in {ActionThrottle, ActionBan}
  /\ issued[Client].kind = "unbanned"
  /\ issued[Client].Reason = AutoBanReason

\* The concurrent run is over: every thread has made its calls.
AllDone == \A t \in Threads : thr[t].pc = "done"

TotalCalls == NumThreads * perThread

\* How many of the first n decisions of the serial ladder are the action a.
LadderCount(a, n) == Cardinality({k \in 1..n : LadderAction(k) = a})

\* C4 as stated: N threads making M calls each for one ip, all inside the request
\* window, get N*M decisions with exactly one FLAG, at least one BAN when
\* N*M >= request_limit + throttle_limit + 1, and the decisions of some serial order.
C4_Original ==
  (AllDone /\ inWin[SameIP]) =>
    /\ tally[ActionAllow] + tally[ActionFlag] + tally[ActionThrottle] + tally[ActionBan] = TotalCalls
    /\ tally[ActionFlag] = 1
    /\ TotalCalls >= cfg.RequestLimit + cfg.ThrottleLimit + 1 => tally[ActionBan] >= 1
    /\ \A a \in Actions : tally[a] = LadderCount(a, TotalCalls)

\* C4: N threads making M calls each for one ip, all inside the request window, get
\* N*M decisions; exactly one is FLAG when N*M > request_limit and none otherwise; at
\* least one is BAN when N*M >= request_limit + throttle_limit + 1; and the decisions
\* are, as a multiset, those of the calls made one after the other.
C4_Concurrent ==
  (AllDone /\ inWin[SameIP]) =>
    /\ tally[ActionAllow] + tally[ActionFlag] + tally[ActionThrottle] + tally[ActionBan] = TotalCalls
    /\ tally[ActionFlag] = IF TotalCalls > cfg.RequestLimit THEN 1 ELSE 0
    /\ TotalCalls >= cfg.RequestLimit + cfg.ThrottleLimit + 1 => tally[ActionBan] >= 1
    /\ \A a \in Actions : tally[a] = LadderCount(a, TotalCalls)

C4_Witness ==
  /\ AllDone /\ inWin[SameIP]
  /\ TotalCalls >= cfg.RequestLimit + cfg.ThrottleLimit + 1
  /\ tally[ActionFlag] = 1 /\ tally[ActionBan] >= 1
  /\ \E i \in 1..(Len(reqByIP[SameIP]) - 1) : reqByIP[SameIP][i] > reqByIP[SameIP][i + 1]

\* C5 as stated: whenever LogRequest returns BAN for x, a Ban for x is in the Ban
\* Store and in the mirror by the time it returns, with no further call.
C5_Original ==
  (ret.op = "LogRequest" /\ ret.Action = ActionBan) =>
    (ret.IP \in DOMAIN store /\ ret.IP \in DOMAIN bannedCache)

\* A step that is one call of the operation op for ip: the steps that leave the
\* last result alone (time passing, the cleanup task, a caller taking its stamp)
\* and the restart are told apart by what they change.
Call(op, ip) ==
  /\ ret'.op = op /\ ret'.IP = ip
  /\ now' = now /\ cleanup' = cleanup /\ restarts' = restarts
  /\ thr' = thr \/ hist' # hist

\* A step that is one LogRequest call of this Limiter for ip.
LoggedFor(ip) == Len(hist'[ip]) = Len(hist[ip]) + 1

\* C5: LogRequest writes no ban: it leaves the Ban Store and the mirror as they were,
\* also when it returns BAN; a Ban for x with the reason given is in both once the
\* caller's RecordBan(x) has returned without error.
C5_CallerPersists ==
  [][\A ip \in IPs :
       /\ LoggedFor(ip) => (store' = store /\ bannedCache' = bannedCache)
       /\ (Call("RecordBan", ip) /\ ~ret'.err) =>
            /\ ip \in DOMAIN store' /\ store'[ip].Reason = ret'.Reason
            /\ ip \in DOMAIN bannedCache' /\ bannedCache'[ip].Reason = ret'.Reason]_vars

C5_Witness ==
  /\ ret.op = "RecordBan" /\ ~ret.err /\ ret.IP = Client
  /\ Len(hist[Client]) > 0 /\ hist[Client][Len(hist[Client])] = ActionBan
  /\ Client \in DOMAIN store /\ Client \in DOMAIN bannedCache

\* The ban the ip was last given is of the kind named, was written to this Limiter,
\* and its expiry has not passed.
Standing(ip, kind) ==
  /\ issued[ip].kind = kind
  /\ issued[ip].epoch = restarts
  /\ issued[ip].ExpiresAt = Nil \/ now <= issued[ip].ExpiresAt

\* C6: after LogRequest has returned BAN for x and the caller's RecordBan(x) has
\* returned without error, every Inspect(x) returns BAN and every IsBanned(x) returns
\* true, whatever other operations interleave, until expires_at passes or Unban(x).
C6_BanObserved ==
  \A ip \in IPs :
    (Standing(ip, "auto") /\ \E k \in 1..Len(hist[ip]) : hist[ip][k] = ActionBan) =>
      /\ (ret.op = "Inspect" /\ ret.IP = ip) => ret.Action = ActionBan
      /\ (ret.op = "IsBanned" /\ ret.IP = ip) => ret.banned

C6_Witness ==
  /\ Standing(Client, "auto")
  /\ \E k \in 1..Len(hist[Client]) : hist[Client][k] = ActionBan
  /\ now = issued[Client].ExpiresAt
  /\ ret.op = "IsBanned" /\ ret.IP = Client /\ ret.banned

\* C7 as stated: after RecordBan(x) returned without error, a fresh engine on the same
\* store reports IsBanned(x) = false before LoadBans; after LoadBans it reports
\* IsBanned(x) = true and Inspect(x) = BAN until expires_at passes or Unban(x); and
\* LoadBans leaves the counters and the flagged set of the fresh engine empty.
C7_Original ==
  \A ip \in IPs :
    (issued[ip].kind = "auto" /\ issued[ip].epoch < restarts) =>
      /\ (engine = "new" /\ ret.op = "IsBanned" /\ ret.IP = ip) => ~ret.banned
      /\ (engine = "hydrated" /\ now <= issued[ip].ExpiresAt) =>
           /\ (ret.op = "IsBanned" /\ ret.IP = ip) => ret.banned
           /\ (ret.op = "Inspect" /\ ret.IP = ip) => ret.Action = ActionBan
      /\ (engine = "hydrated" /\ ret.op = "LoadBans") =>
           (reqByIP = EmptyMap /\ flaggedIPs = EmptyMap /\ throttleByIP = EmptyMap)

\* C8 as stated: for x whose ban has expires_at < now, the next IsBanned(x) or
\* Inspect(x) returns not-banned, and after the call x is gone from the mirror and
\* from the Ban Store.
C8_Original ==
  [][\A ip \in IPs :
       ( /\ ip \in DOMAIN bannedCache
         /\ bannedCache[ip].ExpiresAt # Nil /\ bannedCache[ip].ExpiresAt < now
         /\ Call("IsBanned", ip) \/ Call("Inspect", ip) ) =>
           /\ ~ret'.banned /\ ret'.Action # ActionBan
           /\ ip \notin DOMAIN bannedCache'
           /\ ip \notin DOMAIN store']_vars

\* C8: for x whose ban in the mirror has expires_at < now, the next IsBanned(x) or
\* Inspect(x) returns not-banned and removes x from the mirror; x is gone from the
\* Ban Store too when the store's delete succeeds, and when it fails the failure is
\* swallowed and the store is left as it was.
C8_LazyExpiry ==
  [][\A ip \in IPs :
       ( /\ ip \in DOMAIN bannedCache
         /\ bannedCache[ip].ExpiresAt # Nil /\ bannedCache[ip].ExpiresAt < now
         /\ Call("IsBanned", ip) \/ Call("Inspect", ip) ) =>
           /\ ~ret'.banned /\ ret'.Action # ActionBan /\ ~ret'.err
           /\ ip \notin DOMAIN bannedCache'
           /\ IF ret'.swallowed THEN store' = store ELSE ip \notin DOMAIN store']_vars

C8_Witness ==
  /\ ret.op \in {"IsBanned", "Inspect"} /\ ret.IP = Client /\ ~ret.swallowed
  /\ ~ret.banned /\ ret.Action # ActionBan
  /\ issued[Client].kind \in {"auto", "manual"} /\ issued[Client].epoch = restarts
  /\ issued[Client].ExpiresAt # Nil /\ issued[Client].ExpiresAt < now
  /\ engine = "serving"
  /\ Client \notin DOMAIN bannedCache /\ Client \notin DOMAIN store

\* C9: LogRequest(x), stamped at the time of the call, returns ALLOW exactly when the
\* request timestamps of x kept by pruning with request_window (those not older than
\* the window), plus the current one, number at most request_limit,
\* whether or not x is flagged, has throttle events or is banned; so when every
\* earlier request of x is older than request_window the call returns ALLOW.
C9_AllowIffUnderLimit ==
  [][\A ip \in IPs :
       LoggedFor(ip) =>
         /\ ret'.Action = ActionAllow <=>
              Cardinality({i \in 1..Len(Get(reqByIP, ip, <<>>)) :
                             reqByIP[ip][i] >= now - cfg.RequestWindow}) + 1 <= cfg.RequestLimit
         /\ (\A i \in 1..Len(Get(reqByIP, ip, <<>>)) : reqByIP[ip][i] < now - cfg.RequestWindow)
              => ret'.Action = ActionAllow]_vars

C9_Witness ==
  /\ ret.op = "LogRequest" /\ ret.IP = Client /\ ret.Action = ActionAllow
  /\ Len(hist[Client]) > cfg.RequestLimit
  /\ Client \in DOMAIN flaggedIPs
  /\ Len(Get(throttleByIP, Client, <<>>)) > 0
  /\ Client \in DOMAIN bannedCache /\ ~Expired(bannedCache[Client])

\* C10: after RecordManualBan(x, reason, d) with d > 0 has returned without error,
\* Inspect(x) returns BAN with exactly that reason (until the ban expires or is
\* replaced); after a following Unban(x), Inspect(x) returns ALLOW when x has no
\* request, throttle or flagged state.
C10_ManualBanUnban ==
  \A ip \in IPs :
    (ret.op = "Inspect" /\ ret.IP = ip) =>
      /\ (Standing(ip, "manual") /\ issued[ip].ExpiresAt # Nil) =>
           (ret.Action = ActionBan /\ ret.Reason = issued[ip].Reason)
      /\ ( /\ issued[ip].kind = "unbanned"
           /\ Get(reqByIP, ip, <<>>) = <<>>
           /\ Get(throttleByIP, ip, <<>>) = <<>>
           /\ ip \notin DOMAIN flaggedIPs ) => ret.Action = ActionAllow

C10_Witness ==
  /\ ret.op = "Inspect" /\ ret.IP = Client /\ ret.Action = ActionAllow
  /\ issued[Client].kind = "unbanned" /\ issued[Client].Reason \in ManualReasons
  /\ issued[Client].ExpiresAt # Nil /\ now <= issued[Client].ExpiresAt
  /\ issued[Client].epoch = restarts
  /\ Get(reqByIP, Client, <<>>) = <<>> /\ Client \notin DOMAIN flaggedIPs

\* A step of the cleanup task.
CleanupStep == cleanup' # cleanup /\ restarts' = restarts

\* C11: RecordManualBan(ip, reason, d) that returns without error writes a Ban with
\* expires_at = now + d when d > 0 and a Ban without expires_at when d = 0 (mirror
\* and store row alike, the row at the store's whole-second precision); a Ban
\* without expires_at is removed neither by the lazy expiry of IsBanned/Inspect nor
\* by the cleanup task.
C11_ManualExpiry ==
  [][\A ip \in IPs :
       /\ (Call("RecordManualBan", ip) /\ ~ret'.err) =>
            LET d == issued'[ip].Duration
                want == IF d > 0 THEN now + d ELSE Nil
            IN /\ ip \in DOMAIN bannedCache' /\ bannedCache'[ip].ExpiresAt = want
               /\ ip \in DOMAIN store'
               /\ store'[ip].ExpiresAt = (IF d > 0 THEN want \div TicksPerSec ELSE Nil)
       /\ ( /\ ip \in DOMAIN bannedCache /\ bannedCache[ip].ExpiresAt = Nil
            /\ \/ CleanupStep
               \/ \E x \in IPs : Call("IsBanned", x) \/ Call("Inspect", x) ) =>
            /\ ip \in DOMAIN bannedCache' /\ bannedCache'[ip] = bannedCache[ip]
            /\ (ip \in DOMAIN store /\ store[ip].ExpiresAt = Nil) =>
                 (ip \in DOMAIN store' /\ store'[ip] = store[ip])]_vars

C11_Witness ==
  \E ip \in IPs, other \in IPs :
    /\ other # ip
    /\ issued[ip].kind = "manual" /\ issued[ip].Duration = 0 /\ issued[ip].epoch = 0
    /\ restarts = 1 /\ engine = "hydrated"
    /\ ip \in DOMAIN bannedCache /\ bannedCache[ip].ExpiresAt = Nil
    /\ ip \in DOMAIN store /\ store[ip].ExpiresAt = Nil
    /\ issued[other].kind = "manual" /\ issued[other].Duration > 0
    /\ other \notin DOMAIN bannedCache /\ other \notin DOMAIN store
    /\ now = MaxTime
    /\ ret.op = "Inspect" /\ ret.IP = ip /\ ret.Action = ActionBan

\* What the Limiter and its table hold.
EngineState ==
  <<reqByIP, flaggedIPs, throttleByIP, bannedCache, recentRequests, store>>

\* C12: Unban(x) that returns without error leaves x absent from the mirror and
\* from the Ban Store, whether or not x was banned; on an ip banned in neither it
\* changes no state; it touches nothing but x's ban; and a second Unban(x) would
\* leave the state the first one produced.
C12_UnbanIdempotent ==
  [][\A ip \in IPs :
       (Call("Unban", ip) /\ ~ret'.err) =>
         /\ ip \notin DOMAIN bannedCache' /\ ip \notin DOMAIN store'
         /\ (ip \notin DOMAIN bannedCache /\ ip \notin DOMAIN store) =>
              EngineState' = EngineState
         /\ \A y \in IPs \ {ip} :
              /\ y \in DOMAIN bannedCache' <=> y \in DOMAIN bannedCache
              /\ y \in DOMAIN bannedCache => bannedCache'[y] = bannedCache[y]
              /\ y \in DOMAIN store' <=> y \in DOMAIN store
              /\ y \in DOMAIN store => store'[y] = store[y]
         /\ <<reqByIP', flaggedIPs', throttleByIP', recentRequests'>>
              = <<reqByIP, flaggedIPs, throttleByIP, recentRequests>>
         /\ Delete(bannedCache', ip) = bannedCache' /\ Delete(store', ip) = store']_vars

C12_Witness ==
  /\ faulty
  /\ ret.op = "Unban" /\ ret.IP = Client /\ ~ret.err
  /\ issued[Client].kind = "unbanned" /\ issued[Client].epoch = restarts
  /\ issued[Client].ExpiresAt = Nil
  /\ engine = "hydrated"
  /\ Client \notin DOMAIN bannedCache /\ Client \notin DOMAIN store

\* The timestamps of ts that are not older than the window w ending now.
InWindow(ts, w) ==
  LET Keep(tau) == tau >= now - w
  IN SelectSeq(ts, Keep)

NonDecreasing(ts) == \A i \in 1..(Len(ts) - 1) : ts[i] <= ts[i + 1]

\* C13 as stated: whenever a counter sequence is pruned at time t with window w,
\* what is retained is exactly the timestamps tau >= t - w (the one at t - w stays,
\* every older one goes), in whatever order the events reached the engine.
C13_Original ==
  \A ip \in IPs :
    /\ prune(Get(reqByIP, ip, <<>>), cfg.RequestWindow)
         = InWindow(Get(reqByIP, ip, <<>>), cfg.RequestWindow)
    /\ prune(Get(throttleByIP, ip, <<>>), cfg.ThrottleWindow)
         = InWindow(Get(throttleByIP, ip, <<>>), cfg.ThrottleWindow)

\* C14 as stated: in every reachable state the timestamps of each per-ip sequence of
\* the request counter and of the throttle counter are non-decreasing, also when
\* callers stamp their requests and enter the engine in another order.
C14_Original ==
  \A ip \in IPs :
    /\ NonDecreasing(Get(reqByIP, ip, <<>>))
    /\ NonDecreasing(Get(throttleByIP, ip, <<>>))

\* C15: every LogRequest call pushes its event onto the recent-events ring and drops
\* the oldest one when the ring is full, so after n calls the ring holds the last
\* min(n, in_memory_log_limit) events in call order and never more than
\* in_memory_log_limit; RecentRequests returns the ring's content.
C15_RingBound ==
  /\ [](/\ Len(recentRequests) = Min(CallsMade, cfg.InMemoryLogLimit)
        /\ Len(recentRequests) <= cfg.InMemoryLogLimit
        /\ ret.op = "RecentRequests" => ret.list = recentRequests)
  /\ [][\A ip \in IPs :
          LoggedFor(ip) =>
            LET r == recentRequests'[Len(recentRequests')]
                all == Append(recentRequests, r)
                drop == IF Len(all) > cfg.InMemoryLogLimit
                          THEN Len(all) - cfg.InMemoryLogLimit ELSE 0
            IN /\ r.IP = ip /\ r.Time = reqByIP'[ip][Len(reqByIP'[ip])]
               /\ recentRequests' = SubSeq(all, drop + 1, Len(all))]_vars

C15_Witness ==
  /\ CallsMade > cfg.InMemoryLogLimit
  /\ Len(recentRequests) = cfg.InMemoryLogLimit
  /\ recentRequests[1].IP # recentRequests[2].IP
  /\ recentRequests[1].Time > recentRequests[2].Time
  /\ ret.op = "RecentRequests" /\ ret.list = recentRequests

\* C16: in every reachable state x is in the flagged set exactly when some earlier
\* LogRequest for x of this process was over the limit (returned other than ALLOW);
\* the instant stored is the Time of the request that was flagged; and no operation
\* of the running process removes x from the set or changes that instant.
C16_FlaggedSticky ==
  /\ [](\A ip \in IPs : ip \in DOMAIN flaggedIPs <=> Len(NonAllow(ip)) > 0)
  /\ [][\A ip \in IPs :
          /\ (ip \in DOMAIN flaggedIPs /\ restarts' = restarts) =>
               (ip \in DOMAIN flaggedIPs' /\ flaggedIPs'[ip] = flaggedIPs[ip])
          /\ (LoggedFor(ip) /\ ret'.Action = ActionFlag) =>
               (ip \notin DOMAIN flaggedIPs /\ ip \in DOMAIN flaggedIPs'
                  /\ flaggedIPs'[ip] = reqByIP'[ip][Len(reqByIP'[ip])])]_vars

C16_Witness ==
  /\ Client \in DOMAIN flaggedIPs
  /\ Len(NonAllow(Client)) >= 2
  /\ Client \in DOMAIN throttleByIP
  /\ throttleByIP[Client][Len(throttleByIP[Client])] > flaggedIPs[Client] + cfg.RequestWindow
  /\ issued[Client].kind = "unbanned" /\ issued[Client].epoch = restarts
  /\ engine = "hydrated"
  /\ ret.op = "Inspect"

\* A step in which IsBanned(ip) or Inspect(ip) finds ip's ban expired and removes it.
LazyExpiry(ip) ==
  /\ Call("IsBanned", ip) \/ Call("Inspect", ip)
  /\ ip \in DOMAIN bannedCache /\ ip \notin DOMAIN bannedCache'

\* C17 as stated: after Unban(x), or after a lazy expiry of x's ban in
\* IsBanned(x)/Inspect(x), x has no entries: its request counter and throttle counter
\* hold no events and it is not flagged, so Inspect(x) returns ALLOW.
C17_Original ==
  [][\A ip \in IPs :
       ((Call("Unban", ip) /\ ip \in DOMAIN bannedCache) \/ LazyExpiry(ip)) =>
         /\ Get(reqByIP', ip, <<>>) = <<>>
         /\ Get(throttleByIP', ip, <<>>) = <<>>
         /\ ip \notin DOMAIN flaggedIPs'
         /\ ret'.op = "Inspect" => ret'.Action = ActionAllow]_vars

\* C17: Unban(x) and the lazy expiry of x's ban remove the ban from the mirror and
\* nothing else: the request counter, the throttle counter and the flagged set are
\* left as they were, so the Inspect(x) that finds the ban expired returns THROTTLE
\* when a throttle event of x lies within throttle_window, else FLAG when x is
\* flagged, and ALLOW only when x has neither.
C17_BanOnlyRemoved ==
  [][\A ip \in IPs :
       (Call("Unban", ip) \/ LazyExpiry(ip)) =>
         /\ ip \notin DOMAIN bannedCache'
         /\ reqByIP' = reqByIP /\ throttleByIP' = throttleByIP /\ flaggedIPs' = flaggedIPs
         /\ ret'.op = "Inspect" =>
              ret'.Action =
                IF InWindow(Get(throttleByIP, ip, <<>>), cfg.ThrottleWindow) # <<>>
                  THEN ActionThrottle
                ELSE IF ip \in DOMAIN flaggedIPs THEN ActionFlag
                ELSE ActionAllow]_vars

C17_Witness ==
  /\ issued[Client].kind = "auto" /\ issued[Client].epoch = restarts
  /\ now > issued[Client].ExpiresAt
  /\ \E k \in 1..Len(hist[Client]) : hist[Client][k] = ActionBan
  /\ Client \notin DOMAIN bannedCache
  /\ engine = "serving"
  /\ Client \in DOMAIN flaggedIPs
  /\ Get(throttleByIP, Client, <<>>) # <<>>
  /\ ret.op = "Inspect" /\ ret.IP = Client /\ ret.Action = ActionThrottle

\* The action a request stamped now gets from the request timestamps reqs, the
\* throttle timestamps thrs and the flagged status alone.
CounterAction(reqs, thrs, flagged) ==
  IF Len(InWindow(reqs, cfg.RequestWindow)) + 1 <= cfg.RequestLimit THEN ActionAllow
  ELSE IF ~flagged THEN ActionFlag
  ELSE IF Len(InWindow(thrs, cfg.ThrottleWindow)) + 1 >= cfg.ThrottleLimit THEN ActionBan
  ELSE ActionThrottle

\* C18: LogRequest(x) neither reads nor writes the ban mirror or the Ban Store: the
\* Decision it returns and the counter updates it makes are determined by x's
\* request counter, throttle counter and flagged status (and the clock), the same
\* whether x is banned or not, and the mirror and the store are left as they were.
C18_BanBlind ==
  [][\A ip \in IPs :
       LoggedFor(ip) =>
         LET reqs == Get(reqByIP, ip, <<>>)
             thrs == Get(throttleByIP, ip, <<>>)
             flagged == ip \in DOMAIN flaggedIPs
             a == CounterAction(reqs, thrs, flagged)
         IN /\ ret'.Action = a
            /\ reqByIP'[ip] = Append(InWindow(reqs, cfg.RequestWindow), now)
            /\ Get(throttleByIP', ip, <<>>) =
                 IF a \in {ActionThrottle, ActionBan}
                   THEN Append(InWindow(thrs, cfg.ThrottleWindow), now) ELSE thrs
            /\ ip \in DOMAIN flaggedIPs' <=> (flagged \/ a = ActionFlag)
            /\ bannedCache' = bannedCache /\ store' = store]_vars

C18_Witness ==
  /\ ret.op = "LogRequest" /\ ret.IP = Client /\ ret.Action = ActionThrottle
  /\ Client \in DOMAIN bannedCache /\ bannedCache[Client].ExpiresAt = Nil
  /\ Client \in DOMAIN store
  /\ Client \in DOMAIN flaggedIPs

\* The ladder has returned BAN for ip and the ban recorded for it is in force.
LadderBanActive(ip) ==
  /\ \E k \in 1..Len(hist[ip]) : hist[ip][k] = ActionBan
  /\ Standing(ip, "auto")
  /\ ip \in DOMAIN bannedCache

C20_InspectOrder ==
  [][\A ip \in IPs :
       Call("Inspect", ip) =>
         LET banned == /\ ip \in DOMAIN bannedCache
                       /\ ~(bannedCache[ip].ExpiresAt # Nil /\ bannedCache[ip].ExpiresAt < now)
             throttling == InWindow(Get(throttleByIP, ip, <<>>), cfg.ThrottleWindow) # <<>>
         IN IF banned
              THEN ret'.Action = ActionBan /\ ret'.Reason = bannedCache[ip].Reason
            ELSE IF throttling
              THEN /\ ret'.Action = ActionThrottle
                   /\ ret'.RetryAfter * TicksPerSec <= cfg.RequestWindow
                   /\ cfg.RequestWindow < (ret'.RetryAfter + 1) * TicksPerSec
            ELSE IF ip \in DOMAIN flaggedIPs
              THEN ret'.Action = ActionFlag
            ELSE ret'.Action = ActionAllow]_vars

C20_Witness ==
  /\ ret.op = "Inspect" /\ ret.IP = Client /\ ret.Action = ActionFlag
  /\ Get(throttleByIP, Client, <<>>) # <<>>
  /\ issued[Client].kind = "manual" /\ issued[Client].epoch = restarts
  /\ engine = "serving"
  /\ Client \notin DOMAIN bannedCache

\* C21: Inspect(x) records nothing: it leaves the request counters, the throttle
\* counters, the flagged set, the recent-events ring and the subscriber list of every
\* ip as they were; the mirror and the Ban Store change only in that x's own ban is
\* removed from both when its expires_at lies in the past.
C21_InspectRecordsNothing ==
  [][\A ip \in IPs :
       Call("Inspect", ip) =>
         LET gone == /\ ip \in DOMAIN bannedCache
                     /\ bannedCache[ip].ExpiresAt # Nil /\ bannedCache[ip].ExpiresAt < now
         IN /\ reqByIP' = reqByIP /\ throttleByIP' = throttleByIP
            /\ flaggedIPs' = flaggedIPs /\ recentRequests' = recentRequests
            /\ callbacks' = callbacks /\ hist' = hist
            /\ bannedCache' = IF gone THEN [y \in DOMAIN bannedCache \ {ip} |-> bannedCache[y]]
                                      ELSE bannedCache
            /\ store' = IF gone THEN [y \in DOMAIN store \ {ip} |-> store[y]] ELSE store]_vars

C21_Witness ==
  \E ip \in IPs, other \in IPs :
    /\ other # ip
    /\ ret.op = "Inspect" /\ ret.IP = ip /\ ret.Action = ActionThrottle
    /\ issued[ip].kind = "manual" /\ issued[ip].ExpiresAt # Nil /\ issued[ip].ExpiresAt < now
    /\ ip \notin DOMAIN bannedCache /\ ip \notin DOMAIN store
    /\ other \in DOMAIN bannedCache /\ other \in DOMAIN store
    /\ Get(reqByIP, ip, <<>>) # <<>>
    /\ Get(throttleByIP, ip, <<>>) # <<>>
    /\ ip \in DOMAIN flaggedIPs
    /\ recentRequests # <<>>
    /\ Elems(callbacks) # <<>>

\* How many of the posts q go to url.
PostsTo(q, url) == Cardinality({k \in 1..Len(q) : q[k].target = url})

Range(q) == {q[k] : k \in 1..Len(q)}

\* C22: NotifyCallbacks(d) dispatches nothing when the subscriber list is empty or d
\* is ALLOW; otherwise it dispatches exactly one POST to each URL of the snapshot it
\* took at the call, each carrying d and the header X-Tower-Event = d.action; what is
\* registered or unregistered after the snapshot changes none of them; and no POST
\* is under way or received that no call dispatched.
C22_NotifyDispatch ==
  /\ \A id \in 1..Len(calls) :
       LET c == calls[id]
           snap == c.urls.elems
       IN /\ c.pc = "snapshot" => c.sent = <<>>
          /\ c.pc = "done" =>
               IF snap = <<>> \/ c.d.Action = ActionAllow
                 THEN c.sent = <<>>
                 ELSE /\ \A url \in URLs :
                           PostsTo(c.sent, url) = IF url \in Range(snap) THEN 1 ELSE 0
                      /\ \A k \in 1..Len(c.sent) :
                           /\ Unmarshal(c.sent[k].body) = c.d
                           /\ c.sent[k].event = c.d.Action
                           /\ c.sent[k].id = id /\ c.sent[k].n = k
  /\ \A p \in wire : p \in Range(calls[p.id].sent)
  /\ \A m \in inbox :
       \E p \in Range(calls[m.id].sent) :
         /\ p.n = m.n /\ p.target = m.target /\ p.event = m.event
         /\ Unmarshal(p.body) = m.d

C22_Witness ==
  \E id \in 1..Len(calls) :
    /\ calls[id].pc = "done"
    /\ calls[id].d.Action = ActionThrottle
    /\ calls[id].urls.elems = <<"http://down", "http://a">>
    /\ calls[id].at = <<"http://a">>
    /\ calls[id].at = Elems(callbacks)
    /\ Len(calls[id].sent) = 2
    /\ \E m \in inbox : m.id = id /\ m.target = "http://a"

\* C23: with a responsive subscriber in the snapshot, every FLAG, THROTTLE and BAN
\* decision handed to NotifyCallbacks is eventually received by that subscriber as
\* a payload that decodes to the decision, under the header X-Tower-Event equal to
\* its action; an ALLOW decision is never delivered, and every payload received
\* comes under the header of its own action.
C23_FanOut ==
  /\ \A id \in 1..MaxNotify, url \in Responsive :
       ( /\ Len(calls) >= id
         /\ calls[id].d.Action # ActionAllow
         /\ url \in Range(calls[id].urls.elems) )
         ~> ( /\ Len(calls) >= id
              /\ \E m \in inbox :
                   /\ m.id = id /\ m.target = url
                   /\ m.d = calls[id].d /\ m.event = calls[id].d.Action )
  /\ [](\A m \in inbox : m.d.Action # ActionAllow /\ m.event = m.d.Action)

C23_Witness ==
  /\ Len(calls) >= 1
  /\ calls[1].d.Action = ActionThrottle
  /\ calls[1].urls.elems = <<"http://down", "http://a">>
  /\ wire = {}
  /\ \E m \in inbox :
       /\ m.id = 1 /\ m.target = "http://a" /\ m.event = ActionThrottle
       /\ m.d = Decision(ActionThrottle, Client, ThrottleReason, RetryAfterSeconds)

\* A step that is one call of the subscriber-list operation op for url.
ListCall(op, url) ==
  /\ ret'.op = op /\ ret'.url = url
  /\ calls' = calls /\ wire' = wire /\ inbox' = inbox

\* The list q without url, the others in their order.
Minus(q, url) ==
  LET Other(u) == u # url
  IN SelectSeq(q, Other)

\* C24: the subscriber list never holds a URL twice: RegisterCallback appends a URL
\* that is absent and changes nothing when it is present; UnregisterCallback removes
\* a present URL, keeping the others in their order, and changes nothing when it is
\* absent; Callbacks() returns the list, and the list a caller got from it reads the
\* same after any later register or unregister.
C24_SubscriberList ==
  /\ [](\A i, j \in 1..callbacks.len : i # j => callbacks.arr[i] # callbacks.arr[j])
  /\ [][\A url \in URLs :
          LET list == Elems(callbacks)
          IN /\ ListCall("RegisterCallback", url) =>
                  /\ Elems(callbacks)' = IF url \in Range(list) THEN list ELSE Append(list, url)
                  /\ Held(listed)' = Held(listed)
             /\ ListCall("UnregisterCallback", url) =>
                  /\ Elems(callbacks)' = Minus(list, url)
                  /\ Held(listed)' = Held(listed)
             /\ ListCall("Callbacks", "") =>
                  /\ Elems(callbacks)' = list
                  /\ Held(listed)' = list /\ ret'.list = list]_vars

C24_Witness ==
  /\ ret.op = "UnregisterCallback" /\ ret.url = "http://down"
  /\ Held(listed) = <<"http://a", "http://down", "http://b">>
  /\ Elems(callbacks) = <<"http://a", "http://b">>
  /\ callbacks.arr = <<"http://a", "http://b", "http://b", "">>

\* The windows and limits of the configuration are all positive.
Positive(c) ==
  /\ c.RequestWindow > 0 /\ c.ThrottleWindow > 0 /\ c.BanDuration > 0
  /\ c.RequestLimit > 0 /\ c.ThrottleLimit > 0 /\ c.InMemoryLogLimit > 0

\* C25 as stated: an engine constructed with a non-positive window or limit fails
\* at startup, so LogRequest is never evaluated under such a configuration.
C25_Original ==
  ret.op = "LogRequest" => Positive(cfg)

\* C26: when the write or the delete on the Ban Store fails, RecordBan,
\* RecordManualBan and Unban return the storage error: each of them returns an
\* error exactly when its statement failed, the failed statement has left the table
\* as it was, and a call that returns no error has written the row (the ban calls)
\* or left no row of the ip (Unban).
C26_StorageErrorPropagates ==
  [][\A ip \in IPs :
       /\ (Call("RecordBan", ip) \/ Call("RecordManualBan", ip)) =>
            /\ ret'.err <=> ret'.failed
            /\ ret'.failed => store' = store
            /\ ~ret'.err => (ip \in DOMAIN store' /\ store'[ip].Reason = ret'.Reason
                               /\ store'[ip].BannedAt = now \div TicksPerSec)
       /\ Call("Unban", ip) =>
            /\ ret'.err <=> ret'.failed
            /\ ret'.failed => store' = store
            /\ ~ret'.err => ip \notin DOMAIN store']_vars

C26_Witness ==
  /\ faulty
  /\ ret.op = "Unban" /\ ret.IP = Client /\ ret.err /\ ret.failed
  /\ Client \in DOMAIN store /\ Client \notin DOMAIN bannedCache
  /\ issued[Client].kind = "unbanned" /\ issued[Client].epoch = restarts
  /\ engine = "serving"

\* C27 as stated: when persisting an auto-ban fails, RecordBan(x) returns the error
\* and the ban has taken effect in memory all the same: the mirror holds the new ban
\* of x, so that IsBanned(x) returns true and Inspect(x) returns BAN.
C27_Original ==
  [][\A ip \in IPs :
       (Call("RecordBan", ip) /\ ret'.failed) =>
         /\ ret'.err
         /\ ip \in DOMAIN bannedCache'
         /\ bannedCache'[ip] = Ban(ip, AutoBanReason, now, now + cfg.BanDuration)]_vars

\* C28: when the delete that lazy expiry issues on the Ban Store fails, IsBanned(x)
\* and Inspect(x) swallow the error: the expired ban is answered as not banned, x
\* is removed from the mirror, no error reaches the caller, and the row stays in the
\* table.
C28_LazyExpirySwallows ==
  [][\A ip \in IPs :
       ((Call("IsBanned", ip) \/ Call("Inspect", ip)) /\ ret'.failed) =>
         /\ ip \in DOMAIN bannedCache
         /\ bannedCache[ip].ExpiresAt # Nil /\ bannedCache[ip].ExpiresAt < now
         /\ ~ret'.banned /\ ret'.Action # ActionBan
         /\ ~ret'.err /\ ret'.swallowed
         /\ ip \notin DOMAIN bannedCache'
         /\ store' = store]_vars

C28_Witness ==
  /\ faulty
  /\ ret.op = "Inspect" /\ ret.IP = Client /\ ret.swallowed /\ ~ret.err
  /\ ret.Action = ActionAllow
  /\ Client \notin DOMAIN bannedCache
  /\ Client \in DOMAIN store /\ store[Client].ExpiresAt # Nil
  /\ ParseRFC3339(store[Client].ExpiresAt) < now
  /\ issued[Client].kind = "auto" /\ issued[Client].epoch = restarts

\* C29: a cleanup tick first deletes from the store exactly the rows whose expires_at
\* is in the past, touching nothing else; the second half of the tick, when the
\* delete reported more than 0, removes from the mirror exactly the entries whose
\* expires_at is in the past (unexpired and permanent entries stay as they are) and,
\* when it reported 0, leaves the mirror untouched; either way the tick ends with
\* the compaction requested, and no tick is at rest with a compaction still owed.
C29_CleanupTick ==
  /\ [](cleanup.pc # "sweep" => cleanup.owed = 0)
  /\ [][/\ (cleanup.pc = "idle" /\ cleanup'.pc = "sweep") =>
             LET past == {ip \in DOMAIN store :
                            /\ store[ip].ExpiresAt # Nil
                            /\ store[ip].ExpiresAt * TicksPerSec < now}
             IN /\ DOMAIN store' = DOMAIN store \ past
                /\ \A ip \in DOMAIN store' : store'[ip] = store[ip]
                /\ cleanup'.deleted = Cardinality(past)
                /\ cleanup'.owed = 1
                /\ bannedCache' = bannedCache
        /\ (cleanup.pc = "sweep" /\ cleanup'.pc = "idle") =>
             LET past == {ip \in DOMAIN bannedCache :
                            /\ bannedCache[ip].ExpiresAt # Nil
                            /\ bannedCache[ip].ExpiresAt < now}
             IN /\ cleanup.deleted > 0 =>
                     /\ DOMAIN bannedCache' = DOMAIN bannedCache \ past
                     /\ \A ip \in DOMAIN bannedCache' : bannedCache'[ip] = bannedCache[ip]
                /\ cleanup.deleted = 0 => bannedCache' = bannedCache
                /\ cleanup'.owed = 0
                /\ store' = store]_vars

\* A tick whose delete removed a row is about to sweep a mirror that holds an
\* expired entry of one ip and a permanent entry of another.
C29_Witness ==
  /\ cleanup.pc = "sweep" /\ cleanup.deleted > 0 /\ cleanup.owed = 1
  /\ \E ip \in DOMAIN bannedCache, other \in DOMAIN bannedCache :
       /\ Expired(bannedCache[ip])
       /\ ip \notin DOMAIN store
       /\ bannedCache[other].ExpiresAt = Nil

\* C30: StartCleanup with cleanup_interval <= 0 starts no task; with the task
\* started, once the context is done the task returns in the end and no tick
\* begins (a sweep under way may finish).
C30_Original ==
  /\ [](cfg.CleanupInterval <= 0 => cleanup.pc = "none")
  /\ ((ctx = "done" /\ cleanup.asked) ~> cleanup.pc \in {"none", "exited"})
  /\ [][ctx = "done" => ~(cleanup.pc = "idle" /\ cleanup'.pc = "sweep")]_vars

\* C31: every ban with an expiry that RecordBan or RecordManualBan has written, in
\* the mirror and in the table, has banned_at <= expires_at, whatever the positive
\* duration and however far the clock moved between the reads of the call.
C31_Original ==
  /\ \A ip \in DOMAIN bannedCache :
       bannedCache[ip].ExpiresAt # Nil => bannedCache[ip].BannedAt <= bannedCache[ip].ExpiresAt
  /\ \A ip \in DOMAIN store :
       store[ip].ExpiresAt # Nil => store[ip].BannedAt <= store[ip].ExpiresAt

\* C32: a LogRequest for x that returns ALLOW or FLAG leaves the throttle counter of
\* x as it was; one that returns THROTTLE or BAN drops from its front the events
\* older than throttle_window (up to the first that is not) and appends the
\* request's timestamp, nothing else; and an ip with a throttle event is flagged.
C32_ThrottleCounter ==
  /\ [](\A ip \in IPs : Get(throttleByIP, ip, <<>>) # <<>> => ip \in DOMAIN flaggedIPs)
  /\ [][\A ip \in IPs :
          LoggedFor(ip) =>
            LET old == Get(throttleByIP, ip, <<>>)
                new == Get(throttleByIP', ip, <<>>)
                stamp == recentRequests'[Len(recentRequests')].Time
            IN /\ ret'.Action \in {ActionAllow, ActionFlag} => new = old
               /\ ret'.Action \in {ActionThrottle, ActionBan} =>
                    /\ ip \in DOMAIN flaggedIPs
                    /\ \E k \in 0..Len(old) :
                         /\ new = SubSeq(old, k + 1, Len(old)) \o <<stamp>>
                         /\ \A j \in 1..k : old[j] < now - cfg.ThrottleWindow
                         /\ k < Len(old) => old[k + 1] >= now - cfg.ThrottleWindow
               /\ \A other \in IPs \ {ip} :
                    Get(throttleByIP', other, <<>>) = Get(throttleByIP, other, <<>>)]_vars

\* The ladder of one ip has gone ALLOW, FLAG, THROTTLE, BAN: the flag left the
\* throttle counter empty, the throttle and the ban added one event each.
C32_Witness ==
  \E ip \in IPs :
    /\ hist[ip] = <<ActionAllow, ActionFlag, ActionThrottle, ActionBan>>
    /\ Len(Get(throttleByIP, ip, <<>>)) = 2
    /\ ip \in DOMAIN flaggedIPs
    /\ ret.op = "LogRequest" /\ ret.IP = ip /\ ret.Action = ActionBan

Own(ip) ==
  <<Get(reqByIP, ip, <<>>), Get(throttleByIP, ip, <<>>), ip \in DOMAIN flaggedIPs,
    Get(flaggedIPs, ip, Nil), ip \in DOMAIN bannedCache, Get(bannedCache, ip, Nil),
    ip \in DOMAIN store, Get(store, ip, Nil)>>

\* The answer Inspect owes an ip by that ip's entries and the clock alone.
OwnInspect(ip) ==
  IF ip \in DOMAIN bannedCache /\ ~Expired(bannedCache[ip]) THEN ActionBan
  ELSE IF InWindow(Get(throttleByIP, ip, <<>>), cfg.ThrottleWindow) # <<>> THEN ActionThrottle
  ELSE IF ip \in DOMAIN flaggedIPs THEN ActionFlag
  ELSE ActionAllow

\* C34: a LogRequest, Inspect, IsBanned, RecordBan, RecordManualBan or Unban for x
\* leaves the request counter, the throttle counter, the flag and the ban (mirror
\* entry and table row) of every other ip as they were, and what it answers for x
\* is fixed by x's own entries and the clock, whatever was done for other ips
\* before it.
C34_PerIP ==
  [][\A x \in IPs :
       ( \/ LoggedFor(x)
         \/ \E op \in {"Inspect", "IsBanned", "RecordBan", "RecordManualBan", "Unban"} :
              Call(op, x) ) =>
         /\ \A y \in IPs \ {x} : Own(y)' = Own(y)
         /\ LoggedFor(x) =>
              ret'.Action = CounterAction(Get(reqByIP, x, <<>>), Get(throttleByIP, x, <<>>),
                                          x \in DOMAIN flaggedIPs)
         /\ Call("Inspect", x) => ret'.Action = OwnInspect(x)
         /\ Call("IsBanned", x) =>
              (ret'.banned <=> (x \in DOMAIN bannedCache /\ ~Expired(bannedCache[x])))]_vars

\* The client has just been flagged while the bystander, with a request of its own
\* in its window, holds a ban.
C34_Witness ==
  /\ ret.op = "LogRequest" /\ ret.IP = Client /\ ret.Action = ActionFlag
  /\ Bystander \in DOMAIN bannedCache /\ Bystander \in DOMAIN store
  /\ Get(reqByIP, Bystander, <<>>) # <<>>
  /\ Bystander \notin DOMAIN flaggedIPs

\* The bans in force by the mirror and by the table, each with reason and expiry.
UnexpiredMirror ==
  {<<ip, bannedCache[ip].Reason, bannedCache[ip].ExpiresAt>> :
     ip \in {i \in DOMAIN bannedCache : ~Expired(bannedCache[i])}}

UnexpiredStore ==
  {<<ip, ListBans[ip].Reason, ListBans[ip].ExpiresAt>> :
     ip \in {i \in DOMAIN store : ~Expired(ListBans[i])}}

\* C35: on a Limiter hydrated by LoadBans and a table without failures, after every
\* RecordBan, RecordManualBan, Unban, IsBanned and Inspect, whatever the cleanup
\* task has done or is in the middle of, the mirror and the table hold the same
\* unexpired bans with the same reason and expiry.
C35_Original ==
  [][\A ip \in IPs :
       ( /\ engine = "hydrated"
         /\ \E op \in {"RecordBan", "RecordManualBan", "Unban", "IsBanned", "Inspect"} :
              Call(op, ip) ) =>
         UnexpiredMirror' = UnexpiredStore']_vars

\* The state of notifications: calls, POSTs under way, POSTs received.
Notifications == <<calls, wire, inbox>>

C37_UnbanFailure ==
  [][/\ (Call("Unban", Client) /\ ret'.err) =>
          (Client \notin DOMAIN bannedCache' /\ store' = store)
     /\ (engine = "new" /\ engine' = "hydrated") =>
          \A ip \in DOMAIN store :
            ip \in DOMAIN bannedCache' /\ bannedCache'[ip] = ListBans[ip]
     /\ Call("IsBanned", Client) =>
          (ret'.banned <=> (Client \in DOMAIN bannedCache /\ ~Expired(bannedCache[Client])))
    ]_vars

\* The ban written before the restart was unbanned, yet after the restart and
\* LoadBans the client is found banned: the row had outlived the Unban.
C37_Witness ==
  /\ restarts = 1 /\ engine = "hydrated"
  /\ issued[Client].kind = "unbanned" /\ issued[Client].epoch = 0
  /\ Client \in DOMAIN bannedCache /\ Client \in DOMAIN store
  /\ ret.op = "IsBanned" /\ ret.IP = Client /\ ret.banned

\* C38: RecordBan(x) leaves x with the auto-ban in the mirror and in the table, its
\* expiry the instant of the call plus ban_duration and its reason the auto-ban
\* reason, whatever ban x held before: a permanent one, one that expired later, or
\* none; the bans of other ips stay.
C38_AutoBanReplaces ==
  [][\A ip \in IPs :
       (ret'.op = "RecordBan" /\ ret'.IP = ip /\ bannedCache' # bannedCache) =>
         /\ bannedCache'[ip].Reason = AutoBanReason
         /\ bannedCache'[ip].ExpiresAt = now + cfg.BanDuration
         /\ ip \in DOMAIN store'
         /\ store'[ip].Reason = AutoBanReason
         /\ store'[ip].ExpiresAt = (now + cfg.BanDuration) \div TicksPerSec
         /\ Delete(bannedCache', ip) = Delete(bannedCache, ip)
         /\ Delete(store', ip) = Delete(store, ip)]_vars

\* RecordBan found a permanent manual ban of the ip and left an auto-ban with an
\* expiry in its place, in the mirror and in the table.
C38_Witness ==
  \E ip \in IPs :
    /\ ret.op = "RecordBan" /\ ret.IP = ip
    /\ \E old \in ret.over : old.ExpiresAt = Nil /\ old.Reason \in ManualReasons
    /\ bannedCache[ip].Reason = AutoBanReason /\ bannedCache[ip].ExpiresAt # Nil
    /\ store[ip].Reason = AutoBanReason /\ store[ip].ExpiresAt # Nil

\* C39: RecordManualBan with a duration below 0 writes what it writes for duration
\* 0: a ban without expires_at, in the mirror and in the table, with the reason
\* given and banned_at the instant of the call; so no expires_at of such a ban
\* lies before its banned_at.
C39_NegativeDuration ==
  [][\A ip \in IPs :
       ( /\ ret'.op = "RecordManualBan" /\ ret'.IP = ip
         /\ issued'[ip] # issued[ip] \/ bannedCache' # bannedCache
         /\ issued'[ip].Duration <= 0 ) =>
         /\ bannedCache'[ip] = Ban(ip, ret'.Reason, now', Nil)
         /\ store'[ip] = Ban(ip, ret'.Reason, now' \div TicksPerSec, Nil)
         /\ issued'[ip].kind = "manual"]_vars

\* A manual ban with a negative duration, written after the clock had moved on,
\* stands without an expiry.
C39_Witness ==
  \E ip \in IPs :
    /\ ret.op = "RecordManualBan" /\ ret.IP = ip
    /\ issued[ip].kind = "manual" /\ issued[ip].Duration < 0
    /\ bannedCache[ip].ExpiresAt = Nil /\ bannedCache[ip].BannedAt >= 1
    /\ store[ip].ExpiresAt = Nil

\* C40: a POST /log whose reported ip is banned is answered 403 without LogRequest
\* being called: no decision is made for the ip and its request counter stays as
\* it was.
C40_Original ==
  [][\A ip \in IPs :
       ( /\ ret'.op = "handleLog" /\ ret'.IP = ip
         /\ ret' # ret \/ hist' # hist
         /\ ip \in DOMAIN bannedCache /\ ~Expired(bannedCache[ip]) ) =>
         /\ ret'.status = StatusForbidden
         /\ hist'[ip] = hist[ip]
         /\ Get(reqByIP', ip, <<>>) = Get(reqByIP, ip, <<>>)]_vars

====
